---- MODULE Spec2Model ----
(***************************************************************************)
(* A model of the two CRUD web applications of this repository:            *)
(*   - the Dog Events Tracker (directory-frontend/app/application.py and   *)
(*     its function layer database.py), and                                *)
(*   - the Employee Directory (lambda-app/app).                            *)
(* One action models one route handler, run from dispatch to response.     *)
(* A request that the rate limiter answers with 429, or whose method the   *)
(* route does not accept, never reaches a handler and is not a step.       *)
(* Python strings are TLA+ strings; None is <<>> and a present optional    *)
(* value v is <<v>> (also the shape of a form field's raw_data list).      *)
(***************************************************************************)
EXTENDS Integers, Sequences, FiniteSets, TLC

(* ------------------------------ bounds -------------------------------- *)
\* how many distinct values uuid.uuid4() can return
NumUuids == 1
\* how many successful commits of the dog application a behaviour holds
MaxCommits == 2

(* ------------------------- Python values ------------------------------ *)
None == <<>>
Some(v) == <<v>>
\* truth value of an optional string: None and '' are false
Truthy(opt) == opt # None /\ opt[1] # ""

Min(a, b) == IF a < b THEN a ELSE b

\* s[i] (1-based)
Char(s, i) == SubSeq(s, i, i)
\* s[:n]
Prefix(s, n) == SubSeq(s, 1, Min(n, Len(s)))
\* s.startswith(p)
startswith(s, p) == Len(s) >= Len(p) /\ SubSeq(s, 1, Len(p)) = p

Whitespace == {" ", "\t", "\n"}
Digits == {"0", "1", "2", "3", "4", "5", "6", "7", "8", "9"}
HexDigits == Digits \cup {"a", "b", "c", "d", "e", "f"}
Lower == {"a", "b", "c", "d", "e", "f", "g", "h", "i", "j", "k", "l", "m",
          "n", "o", "p", "q", "r", "s", "t", "u", "v", "w", "x", "y", "z"}
Upper == {"A", "B", "C", "D", "E", "F", "G", "H", "I", "J", "K", "L", "M",
          "N", "O", "P", "Q", "R", "S", "T", "U", "V", "W", "X", "Y", "Z"}
Letters == Lower \cup Upper

AllChars(s, set) == \A i \in 1..Len(s) : Char(s, i) \in set

\* str.strip()
RECURSIVE lstrip(_)
lstrip(s) == IF Len(s) > 0 /\ Char(s, 1) \in Whitespace THEN lstrip(Tail(s)) ELSE s
RECURSIVE rstrip(_)
rstrip(s) ==
  IF Len(s) > 0 /\ Char(s, Len(s)) \in Whitespace
  THEN rstrip(SubSeq(s, 1, Len(s) - 1)) ELSE s
strip(s) == rstrip(lstrip(s))

\* str.isdigit()
isdigit(s) == Len(s) > 0 /\ AllChars(s, Digits)

DigitVal(c) ==
  CASE c = "0" -> 0 [] c = "1" -> 1 [] c = "2" -> 2 [] c = "3" -> 3 [] c = "4" -> 4
    [] c = "5" -> 5 [] c = "6" -> 6 [] c = "7" -> 7 [] c = "8" -> 8 [] c = "9" -> 9

\* int(s) for a string of decimal digits
RECURSIVE int(_)
int(s) == IF Len(s) = 0 THEN 0
          ELSE 10 * int(SubSeq(s, 1, Len(s) - 1)) + DigitVal(Char(s, Len(s)))

(* ------------------------------ ids ----------------------------------- *)
\* str(uuid.uuid4()): 36 characters, hex digits and four dashes
UuidPool == << "3f2a9c1e-7b4d-4e8a-9c3f-5d6e7f8a9b0c",
               "b7e41d02-1c5a-4f3b-8d2e-0a1b2c3d4e5f",
               "0c9d8e7f-6a5b-4c3d-a2e1-f0e9d8c7b6a5",
               "e5d4c3b2-a1f0-4e9d-b8c7-a6b5c4d3e2f1" >>
uuid4 == { UuidPool[i] : i \in 1..Min(NumUuids, Len(UuidPool)) }

\* f"{prefix}-{str(uuid.uuid4())[:8]}"
NewId(prefix, u) == prefix \o "-" \o Prefix(u, 8)

\* '<prefix>-<8 hex chars>'
WellFormedId(id, prefix) ==
  /\ Len(id) = Len(prefix) + 9
  /\ startswith(id, prefix \o "-")
  /\ AllChars(SubSeq(id, Len(prefix) + 2, Len(id)), HexDigits)

(* ------------------------- datetime ----------------------------------- *)
\* datetime(year, month, day, hour, minute)
datetime(y, mo, d, h, mi) ==
  [year |-> y, month |-> mo, day |-> d, hour |-> h, minute |-> mi, second |-> 0]

IsLeap(y) == y % 4 = 0 /\ (y % 100 # 0 \/ y % 400 = 0)
DaysInMonth(y, m) ==
  CASE m \in {1, 3, 5, 7, 8, 10, 12} -> 31
    [] m \in {4, 6, 9, 11} -> 30
    [] OTHER -> IF IsLeap(y) THEN 29 ELSE 28
RECURSIVE DaysBeforeMonth(_, _)
DaysBeforeMonth(y, m) ==
  IF m <= 1 THEN 0 ELSE DaysBeforeMonth(y, m - 1) + DaysInMonth(y, m - 1)
DaysBeforeYear(y) ==
  (y - 1) * 365 + ((y - 1) \div 4) - ((y - 1) \div 100) + ((y - 1) \div 400)
toordinal(dt) == DaysBeforeYear(dt.year) + DaysBeforeMonth(dt.year, dt.month) + dt.day

\* (a - b).total_seconds()
total_seconds(a, b) ==
  (toordinal(a) - toordinal(b)) * 86400
  + (a.hour - b.hour) * 3600 + (a.minute - b.minute) * 60 + (a.second - b.second)

DigitStr(n) ==
  CASE n = 0 -> "0" [] n = 1 -> "1" [] n = 2 -> "2" [] n = 3 -> "3" [] n = 4 -> "4"
    [] n = 5 -> "5" [] n = 6 -> "6" [] n = 7 -> "7" [] n = 8 -> "8" [] n = 9 -> "9"
Pad2(n) == DigitStr(n \div 10) \o DigitStr(n % 10)
Pad4(n) == Pad2(n \div 100) \o Pad2(n % 100)

\* datetime.isoformat()
isoformat(dt) ==
  Pad4(dt.year) \o "-" \o Pad2(dt.month) \o "-" \o Pad2(dt.day) \o "T"
  \o Pad2(dt.hour) \o ":" \o Pad2(dt.minute) \o ":" \o Pad2(dt.second)

\* datetime.strptime(s, '%Y-%m-%dT%H:%M'): <<>> stands for ValueError.  The inputs
\* of the model are zero-padded, so the shorter spellings strptime also reads
\* ('2024-1-5T8:0') are not among them.
strptime(s) ==
  IF /\ Len(s) = 16
     /\ AllChars(SubSeq(s, 1, 4) \o SubSeq(s, 6, 7) \o SubSeq(s, 9, 10)
                 \o SubSeq(s, 12, 13) \o SubSeq(s, 15, 16), Digits)
     /\ Char(s, 5) = "-" /\ Char(s, 8) = "-" /\ Char(s, 11) = "T" /\ Char(s, 14) = ":"
  THEN LET y == int(SubSeq(s, 1, 4))
           mo == int(SubSeq(s, 6, 7))
           d == int(SubSeq(s, 9, 10))
           h == int(SubSeq(s, 12, 13))
           mi == int(SubSeq(s, 15, 16))
       IN IF /\ y >= 1 /\ mo \in 1..12 /\ h \in 0..23 /\ mi \in 0..59
             /\ d >= 1 /\ d <= DaysInMonth(y, mo)
          THEN Some(datetime(y, mo, d, h, mi)) ELSE None
  ELSE None

(* --------------------- wtforms fields and validators ------------------ *)
\* A field's raw_data is formdata.getlist(name): <<>> when the POST does not
\* carry the field, <<text>> when it does.

\* StringField.process_formdata: data is the submitted text, None without one
StringData(raw) == IF raw = <<>> THEN None ELSE Some(raw[1])

\* validators.InputRequired
InputRequired(raw) == raw # <<>> /\ raw[1] # ""

\* validators.Length(min, max); max = -1 is "no maximum"
Length(data, min, max) ==
  LET length == IF Truthy(data) THEN Len(data[1]) ELSE 0
  IN length >= min /\ (max = -1 \/ length <= max)

\* validators.Regexp(r'^[set]+$'): re.match of the field's text; '$' also
\* matches just before one trailing newline
Regexp(data, set) ==
  LET s == IF data = None THEN "" ELSE data[1]
      body == IF Len(s) > 0 /\ Char(s, Len(s)) = "\n" /\ "\n" \notin set
              THEN SubSeq(s, 1, Len(s) - 1) ELSE s
  IN Len(body) > 0 /\ AllChars(body, set)

\* validators.Optional: when the raw text is missing or blank it empties the
\* field's error list (also of the errors found before it ran) and ends the chain
OptionalStops(raw) == raw = <<>> \/ strip(raw[1]) = ""

\* SelectField.pre_validate: the coerced data must be one of the choices
ValidChoice(raw, choices) == raw # <<>> /\ raw[1] \in choices

\* a SelectField under [InputRequired]
SelectRequired(raw, choices) == InputRequired(raw) /\ ValidChoice(raw, choices)

\* a SelectField under [Optional]
SelectOptional(raw, choices) == OptionalStops(raw) \/ ValidChoice(raw, choices)

\* DateTimeField.process_formdata leaves a process error when text is present
\* and does not parse
DateTimeProcessOk(raw) == raw = <<>> \/ strptime(raw[1]) # None
DateTimeData(raw) == IF raw = <<>> THEN None ELSE strptime(raw[1])

(* ====================== Dog Events Tracker ============================ *)
VARIABLES
  dogs,      \* table dogs: id -> row
  events,    \* table events: id -> row
  users,     \* table users: id -> row
  session,   \* the browser session's user id (Flask-Login), None when logged out
  resp,      \* the response to the latest request (without the rows it carried)
  commits    \* successful commits so far

dogVars == <<dogs, events, users, session, resp, commits>>

event_types == {"walk", "poop", "pee", "vomit", "nap"}
dog_sizes == {"small", "medium", "large"}
Roles == {"admin", "manager", "employee"}

\* bcrypt.hashpw(password, gensalt()) and bcrypt.checkpw(password, hash)
hashpw(password) == "$2b$" \o password
\* faulty variant: any password passes
check_password_any(user, password) == TRUE
check_password(user, password) == user.password_hash = hashpw(password)

(* ----------------------------- seeding -------------------------------- *)
sample_dogs ==
  ("dog-001" :> [name |-> "Max", approx_age |-> "3 years", size |-> "medium",
                 breed_type |-> "Golden Retriever"])
  @@ ("dog-002" :> [name |-> "Bella", approx_age |-> "1 year", size |-> "small",
                    breed_type |-> "Chihuahua"])

sample_events ==
  ("evt-001" :> [dog_id |-> "dog-001", event_type |-> "walk",
                 timestamp |-> datetime(2024, 1, 15, 8, 0),
                 end_timestamp |-> Some(datetime(2024, 1, 15, 8, 30)),
                 location |-> Some("Neighborhood Park"),
                 notes |-> Some("Good energy, met other dogs"),
                 bristol_stool_scale |-> None])
  @@ ("evt-002" :> [dog_id |-> "dog-001", event_type |-> "poop",
                    timestamp |-> datetime(2024, 1, 15, 8, 15),
                    end_timestamp |-> None,
                    location |-> Some("Backyard"),
                    notes |-> Some("Normal consistency"),
                    bristol_stool_scale |-> Some(4)])
  @@ ("evt-003" :> [dog_id |-> "dog-002", event_type |-> "nap",
                    timestamp |-> datetime(2024, 1, 15, 10, 0),
                    end_timestamp |-> Some(datetime(2024, 1, 15, 11, 30)),
                    location |-> Some("Living Room"),
                    notes |-> Some("Slept soundly on favorite blanket"),
                    bristol_stool_scale |-> None])

\* init_sample_users: the two uuid4 draws made at start-up (taken to differ)
SeedUuidAdmin == "9a8b7c6d-5e4f-4a3b-9c2d-1e0f9a8b7c6d"
SeedUuidEmployee == "1d2c3b4a-5f6e-4d7c-8b9a-0f1e2d3c4b5a"
sample_users ==
  (NewId("user", SeedUuidAdmin) :>
     [username |-> "admin", email |-> "admin@company.com",
      password_hash |-> hashpw("Admin123!"), full_name |-> "System Administrator",
      role |-> "admin", is_active |-> TRUE])
  @@ (NewId("user", SeedUuidEmployee) :>
        [username |-> "employee", email |-> "employee@company.com",
         password_hash |-> hashpw("Employee123!"), full_name |-> "Sample Employee",
         role |-> "employee", is_active |-> TRUE])

(* ---------------------------- responses ------------------------------- *)
NoResp ==
  [status |-> 0, location |-> None, flashes |-> <<>>, template |-> None,
   dog |-> None, dogs |-> {}, event |-> None, events |-> <<>>, json |-> None]

\* redirect(location), after the given flash() calls
redirect(location, flashes) ==
  [NoResp EXCEPT !.status = 302, !.location = Some(location), !.flashes = flashes]

\* render_template(template, ...), after the given flash() calls
render_template(template, flashes) ==
  [NoResp EXCEPT !.status = 200, !.template = Some(template), !.flashes = flashes]

flash(message, category) == [message |-> message, category |-> category]

\* urllib quoting of the 'next' parameter
RECURSIVE url_quote(_)
url_quote(s) ==
  IF Len(s) = 0 THEN ""
  ELSE (IF Char(s, 1) = "/" THEN "%2F" ELSE Char(s, 1)) \o url_quote(Tail(s))

\* url_for
url_home == "/"
url_login == "/login"
url_view(dog_id) == "/view/" \o dog_id

\* LoginManager.unauthorized(): flash the login message, redirect to the login
\* view with the requested path as 'next'
unauthorized(path) ==
  redirect(url_login \o "?next=" \o url_quote(path),
           << flash("Please log in to access this page.", "info") >>)

\* load_user(session user id); current_user.is_authenticated
current_user ==
  IF session # None /\ session[1] \in DOMAIN users THEN Some(users[session[1]]) ELSE None
is_authenticated == current_user # None

access_denied ==
  redirect(url_home, << flash("Access denied. Admin privileges required.", "error") >>)

\* what a handler returns: the store and session it leaves, and its response
State == [dogs |-> dogs, events |-> events, users |-> users, session |-> session,
          commits |-> commits]
Out(st, r) == [st |-> st, resp |-> r]
Reply(r) == Out(State, r)

(* ------------------------ login and logout ---------------------------- *)
\* LoginForm.validate_on_submit()
LoginFormValid(method, form) ==
  /\ method = "POST" /\ form.csrf
  /\ InputRequired(form.username) /\ Length(StringData(form.username), 3, 80)
  /\ InputRequired(form.password) /\ Length(StringData(form.password), 6, -1)

\* the redirect target after a successful login
next_page(next) ==
  IF ~Truthy(next) \/ ~startswith(next[1], "/") THEN url_home ELSE next[1]

\* User.query.filter_by(username=...).first()
user_by_username(name) == { id \in DOMAIN users : users[id].username = name }
user_by_email(email) == { id \in DOMAIN users : users[id].email = email }

\* POST or GET /login?next=...
login(method, form, next) ==
  IF is_authenticated THEN Reply(redirect(url_home, <<>>))
  ELSE IF LoginFormValid(method, form)
  THEN LET found == user_by_username(form.username[1])
       IN IF found # {} /\ check_password(users[CHOOSE id \in found : TRUE], form.password[1])
          THEN LET id == CHOOSE id \in found : TRUE
               IN IF users[id].is_active
                  THEN Out([State EXCEPT !.session = Some(id)],
                           redirect(next_page(next),
                                    << flash("Welcome back, " \o users[id].full_name \o "!",
                                             "success") >>))
                  ELSE Reply(render_template("login.html",
                         << flash("Account is disabled. Please contact administrator.",
                                  "error") >>))
          ELSE Reply(render_template("login.html",
                       << flash("Invalid username or password.", "error") >>))
  ELSE Reply(render_template("login.html", <<>>))

\* faulty variant: the redirect without logout_user()
logout_keeps_session ==
  IF ~is_authenticated THEN Reply(unauthorized("/logout"))
  ELSE Reply(redirect(url_login,
                      << flash("You have been logged out successfully.", "info") >>))

\* GET /logout
logout ==
  IF ~is_authenticated THEN Reply(unauthorized("/logout"))
  ELSE Out([State EXCEPT !.session = None],
           redirect(url_login,
                    << flash("You have been logged out successfully.", "info") >>))

(* ----------------------------- register ------------------------------- *)
PasswordChars == Letters \cup Digits \cup {"@", "$", "!", "%", "*", "?", "&"}
HasChar(s, set) == \E i \in 1..Len(s) : Char(s, i) \in set
\* r'^(?=.*[a-z])(?=.*[A-Z])(?=.*\d)(?=.*[@$!%*?&])[A-Za-z\d@$!%*?&]'
PasswordRegexp(s) ==
  /\ HasChar(s, Lower) /\ HasChar(s, Upper) /\ HasChar(s, Digits)
  /\ HasChar(s, {"@", "$", "!", "%", "*", "?", "&"})
  /\ Len(s) > 0 /\ Char(s, 1) \in PasswordChars

\* validators.Email: one '@', a local part, a dotted domain
EmailChars == Letters \cup Digits \cup {".", "-", "_", "+"}
Email(s) ==
  \E at \in 2..(Len(s) - 1) :
    /\ Char(s, at) = "@"
    /\ AllChars(SubSeq(s, 1, at - 1), EmailChars)
    /\ AllChars(SubSeq(s, at + 1, Len(s)), EmailChars)
    /\ \E dot \in (at + 2)..(Len(s) - 1) : Char(s, dot) = "."

\* faulty variant: the role field without its AnyOf validator
UserFormValid_any_role(method, form) ==
  /\ method = "POST" /\ form.csrf
  /\ InputRequired(form.username) /\ Length(StringData(form.username), 3, 80)
  /\ Regexp(StringData(form.username), Letters \cup Digits \cup {"_", "-"})
  /\ InputRequired(form.email) /\ Email(form.email[1])
  /\ Length(StringData(form.email), 0, 120)
  /\ InputRequired(form.full_name) /\ Length(StringData(form.full_name), 2, 100)
  /\ Regexp(StringData(form.full_name), Letters \cup Whitespace \cup {"-", "'", "."})
  /\ InputRequired(form.password) /\ Length(StringData(form.password), 8, -1)
  /\ PasswordRegexp(form.password[1])
  /\ InputRequired(form.role)

\* UserForm.validate_on_submit()
UserFormValid(method, form) ==
  /\ method = "POST" /\ form.csrf
  /\ InputRequired(form.username) /\ Length(StringData(form.username), 3, 80)
  /\ Regexp(StringData(form.username), Letters \cup Digits \cup {"_", "-"})
  /\ InputRequired(form.email) /\ Email(form.email[1])
  /\ Length(StringData(form.email), 0, 120)
  /\ InputRequired(form.full_name) /\ Length(StringData(form.full_name), 2, 100)
  /\ Regexp(StringData(form.full_name), Letters \cup Whitespace \cup {"-", "'", "."})
  /\ InputRequired(form.password) /\ Length(StringData(form.password), 8, -1)
  /\ PasswordRegexp(form.password[1])
  /\ InputRequired(form.role) /\ form.role[1] \in Roles

\* GET or POST /register; u is the value uuid.uuid4() returns
register(method, form, u) ==
  IF ~is_authenticated THEN Reply(unauthorized("/register"))
  ELSE IF current_user[1].role # "admin" THEN Reply(access_denied)
  ELSE IF UserFormValid(method, form)
  THEN IF user_by_username(form.username[1]) # {}
       THEN Reply(render_template("register.html",
                    << flash("Username already exists.", "error") >>))
       ELSE IF user_by_email(form.email[1]) # {}
       THEN Reply(render_template("register.html",
                    << flash("Email already registered.", "error") >>))
       ELSE LET id == NewId("user", u)
                row == [username |-> form.username[1], email |-> form.email[1],
                        password_hash |-> hashpw(form.password[1]),
                        full_name |-> form.full_name[1], role |-> form.role[1],
                        is_active |-> TRUE]
            IN IF id \in DOMAIN users
               THEN Reply(render_template("register.html",
                            << flash("Error creating user: IntegrityError", "error") >>))
               ELSE Out([State EXCEPT !.users = users @@ (id :> row),
                                      !.commits = commits + 1],
                        redirect(url_home,
                                 << flash("User " \o row.username \o " created successfully!",
                                          "success") >>))
  ELSE Reply(render_template("register.html", <<>>))

(* ------------------------------- dogs --------------------------------- *)
\* Dog.to_dict
Dog_to_dict(id) ==
  [id |-> id, name |-> dogs[id].name, approx_age |-> dogs[id].approx_age,
   size |-> dogs[id].size, breed_type |-> dogs[id].breed_type]

NameChars == Letters \cup Whitespace \cup {"-", "'", "."}
AgeChars == Letters \cup Digits \cup Whitespace \cup {"-", "'", "."}
BreedChars == Letters \cup Whitespace \cup {"-", "'", ".", ",", "&"}

\* DogForm.validate_on_submit()
DogFormValid(method, form) ==
  /\ method = "POST" /\ form.csrf
  /\ InputRequired(form.name) /\ Length(StringData(form.name), 2, 100)
  /\ Regexp(StringData(form.name), NameChars)
  /\ InputRequired(form.approx_age) /\ Length(StringData(form.approx_age), 2, 50)
  /\ Regexp(StringData(form.approx_age), AgeChars)
  /\ SelectRequired(form.size, dog_sizes)
  /\ InputRequired(form.breed_type) /\ Length(StringData(form.breed_type), 2, 100)
  /\ Regexp(StringData(form.breed_type), BreedChars)

\* faulty variant: two columns take each other's field
DogRow_swapped(form) ==
  [name |-> form.name[1], approx_age |-> form.breed_type[1], size |-> form.size[1],
   breed_type |-> form.approx_age[1]]

\* the row add and edit write from a validated DogForm
DogRow(form) ==
  [name |-> form.name[1], approx_age |-> form.approx_age[1], size |-> form.size[1],
   breed_type |-> form.breed_type[1]]

\* GET /
home ==
  IF ~is_authenticated THEN Reply(unauthorized("/"))
  ELSE Reply([render_template("home.html", <<>>) EXCEPT
                !.dogs = { Dog_to_dict(id) : id \in DOMAIN dogs }])

\* faulty variant: the insert replaces a row that has the generated id
add_overwrites(method, form, u) ==
  IF ~is_authenticated THEN Reply(unauthorized("/add"))
  ELSE IF DogFormValid(method, form)
  THEN Out([State EXCEPT !.dogs = (NewId("dog", u) :> DogRow(form)) @@ dogs,
                         !.commits = commits + 1],
           redirect(url_home, << flash("Dog added successfully!", "success") >>))
  ELSE Reply(render_template("add-edit.html", <<>>))

\* GET or POST /add; u is the value uuid.uuid4() returns
add(method, form, u) ==
  IF ~is_authenticated THEN Reply(unauthorized("/add"))
  ELSE IF DogFormValid(method, form)
  THEN LET id == NewId("dog", u)
       IN IF id \in DOMAIN dogs
          THEN Reply(render_template("add-edit.html",
                       << flash("Error adding dog: IntegrityError", "error") >>))
          ELSE Out([State EXCEPT !.dogs = dogs @@ (id :> DogRow(form)),
                                 !.commits = commits + 1],
                   redirect(url_home, << flash("Dog added successfully!", "success") >>))
  ELSE Reply(render_template("add-edit.html", <<>>))

\* faulty variant: editing reserved to admins
edit_admin_only(dog_id, method, form) ==
  IF ~is_authenticated THEN Reply(unauthorized("/edit/" \o dog_id))
  ELSE IF current_user[1].role # "admin" THEN Reply(access_denied)
  ELSE IF dog_id \notin DOMAIN dogs
  THEN Reply(redirect(url_home, << flash("Dog not found", "error") >>))
  ELSE IF DogFormValid(method, form)
  THEN Out([State EXCEPT !.dogs = [dogs EXCEPT ![dog_id] = DogRow(form)],
                         !.commits = commits + 1],
           redirect(url_view(dog_id), << flash("Dog updated successfully!", "success") >>))
  ELSE Reply([render_template("add-edit.html", <<>>) EXCEPT
                !.dog = Some(Dog_to_dict(dog_id))])

\* GET or POST /edit/<dog_id>
edit(dog_id, method, form) ==
  IF ~is_authenticated THEN Reply(unauthorized("/edit/" \o dog_id))
  ELSE IF dog_id \notin DOMAIN dogs
  THEN Reply(redirect(url_home, << flash("Dog not found", "error") >>))
  ELSE IF DogFormValid(method, form)
  THEN Out([State EXCEPT !.dogs = [dogs EXCEPT ![dog_id] = DogRow(form)],
                         !.commits = commits + 1],
           redirect(url_view(dog_id), << flash("Dog updated successfully!", "success") >>))
  ELSE Reply([render_template("add-edit.html", <<>>) EXCEPT
                !.dog = Some(Dog_to_dict(dog_id))])

\* the rows of a table without those whose id is in ids
Without(table, ids) == [id \in DOMAIN table \ ids |-> table[id]]

\* db.session.delete(dog) under cascade='all, delete-orphan': the dog's events
\* (the rows whose dog_id is the dog's id) are deleted with it
events_of(dog_id) == { e \in DOMAIN events : events[e].dog_id = dog_id }
\* faulty variant: the relationship without its cascade
session_delete_dog_no_cascade(dog_id) ==
  [State EXCEPT !.dogs = Without(dogs, {dog_id}), !.commits = commits + 1]
session_delete_dog(dog_id) ==
  [State EXCEPT !.dogs = Without(dogs, {dog_id}),
                !.events = Without(events, events_of(dog_id)),
                !.commits = commits + 1]

\* POST /delete/<dog_id>
delete(dog_id) ==
  IF ~is_authenticated THEN Reply(unauthorized("/delete/" \o dog_id))
  ELSE IF current_user[1].role # "admin" THEN Reply(access_denied)
  ELSE IF dog_id \in DOMAIN dogs
  THEN Out(session_delete_dog(dog_id),
           redirect(url_home, << flash("Dog deleted successfully!", "success") >>))
  ELSE Reply(redirect(url_home, << flash("Dog not found", "error") >>))

\* database.py delete_dog(dog_id): True when the dog was there and is deleted
delete_dog(dog_id) ==
  IF dog_id \in DOMAIN dogs
  THEN [st |-> session_delete_dog(dog_id), result |-> TRUE]
  ELSE [st |-> State, result |-> FALSE]

(* ------------------------------ events -------------------------------- *)
Abs(n) == IF n < 0 THEN -n ELSE n
RECURSIVE gcd(_, _)
gcd(a, b) == IF b = 0 THEN a ELSE gcd(b, a % b)
\* a / b (true division, b > 0): the quotient as a fraction in lowest terms
truediv(a, b) ==
  LET g == gcd(Abs(a), b) IN [num |-> a \div g, den |-> b \div g]

\* faulty variant: the duration left in seconds
Event_to_dict_seconds(id) ==
  LET e == events[id]
  IN [id |-> id, dog_id |-> e.dog_id, event_type |-> e.event_type,
      timestamp |-> Some(isoformat(e.timestamp)),
      end_timestamp |-> IF e.end_timestamp # None
                        THEN Some(isoformat(e.end_timestamp[1])) ELSE None,
      duration |-> IF e.end_timestamp # None
                   THEN Some(truediv(total_seconds(e.end_timestamp[1], e.timestamp), 1))
                   ELSE None,
      location |-> e.location, notes |-> e.notes,
      bristol_stool_scale |-> e.bristol_stool_scale]

\* Event.to_dict (application.py and database.py hold the same method)
Event_to_dict(id) ==
  LET e == events[id]
      duration == IF e.end_timestamp # None
                  THEN Some(truediv(total_seconds(e.end_timestamp[1], e.timestamp), 60))
                  ELSE None
  IN [id |-> id, dog_id |-> e.dog_id, event_type |-> e.event_type,
      timestamp |-> Some(isoformat(e.timestamp)),
      end_timestamp |-> IF e.end_timestamp # None
                        THEN Some(isoformat(e.end_timestamp[1])) ELSE None,
      duration |-> duration, location |-> e.location, notes |-> e.notes,
      bristol_stool_scale |-> e.bristol_stool_scale]

BristolChoices == {"", "1", "2", "3", "4", "5", "6", "7"}

\* EventForm.validate_on_submit(), with form.dog_id.choices the dogs of the store
EventFormValid(method, form) ==
  /\ method = "POST" /\ form.csrf
  /\ SelectRequired(form.dog_id, DOMAIN dogs)
  /\ SelectRequired(form.event_type, event_types)
  /\ InputRequired(form.timestamp) /\ DateTimeProcessOk(form.timestamp)
  /\ DateTimeProcessOk(form.end_timestamp)
  /\ Length(StringData(form.location), -1, 200)
  /\ Length(StringData(form.notes), -1, 1000)
  /\ SelectOptional(form.bristol_stool_scale, BristolChoices)

\* int(data) if data and data.isdigit() else None
ScaleToStore(raw) ==
  IF Truthy(StringData(raw)) /\ isdigit(raw[1]) THEN Some(int(raw[1])) ELSE None

\* data if data else None, for a text field
TextOrNone(raw) == IF Truthy(StringData(raw)) THEN Some(raw[1]) ELSE None

\* the row add_event and edit_event write from a validated EventForm
EventRow(form) ==
  [dog_id |-> form.dog_id[1], event_type |-> form.event_type[1],
   timestamp |-> DateTimeData(form.timestamp)[1],
   end_timestamp |-> DateTimeData(form.end_timestamp),
   location |-> TextOrNone(form.location), notes |-> TextOrNone(form.notes),
   bristol_stool_scale |-> ScaleToStore(form.bristol_stool_scale)]

all_dogs == { Dog_to_dict(id) : id \in DOMAIN dogs }

\* GET or POST /add-event; u is the value uuid.uuid4() returns
add_event(method, form, u) ==
  IF ~is_authenticated THEN Reply(unauthorized("/add-event"))
  ELSE IF EventFormValid(method, form)
  THEN LET id == NewId("evt", u)
       IN IF id \in DOMAIN events
          THEN Reply([render_template("add-edit-event.html",
                        << flash("Error adding event: IntegrityError", "error") >>)
                      EXCEPT !.dogs = all_dogs])
          ELSE Out([State EXCEPT !.events = events @@ (id :> EventRow(form)),
                                 !.commits = commits + 1],
                   redirect(url_view(form.dog_id[1]),
                            << flash("Event added successfully!", "success") >>))
  ELSE Reply([render_template("add-edit-event.html", <<>>) EXCEPT !.dogs = all_dogs])

\* GET or POST /edit-event/<event_id>
edit_event(event_id, method, form) ==
  IF ~is_authenticated THEN Reply(unauthorized("/edit-event/" \o event_id))
  ELSE IF event_id \notin DOMAIN events
  THEN Reply(redirect(url_home, << flash("Event not found", "error") >>))
  ELSE IF EventFormValid(method, form)
  THEN Out([State EXCEPT !.events = [events EXCEPT ![event_id] = EventRow(form)],
                         !.commits = commits + 1],
           redirect(url_view(form.dog_id[1]),
                    << flash("Event updated successfully!", "success") >>))
  ELSE Reply([render_template("add-edit-event.html", <<>>) EXCEPT
                !.event = Some(Event_to_dict(event_id)), !.dogs = all_dogs])

\* faulty variant: the handler without its role check
delete_event_any_role(event_id) ==
  IF ~is_authenticated THEN Reply(unauthorized("/delete-event/" \o event_id))
  ELSE IF event_id \in DOMAIN events
  THEN Out([State EXCEPT !.events = Without(events, {event_id}),
                         !.commits = commits + 1],
           redirect(url_view(events[event_id].dog_id),
                    << flash("Event deleted successfully!", "success") >>))
  ELSE Reply(redirect(url_home, << flash("Event not found", "error") >>))

\* POST /delete-event/<event_id>
delete_event(event_id) ==
  IF ~is_authenticated THEN Reply(unauthorized("/delete-event/" \o event_id))
  ELSE IF current_user[1].role # "admin" THEN Reply(access_denied)
  ELSE IF event_id \in DOMAIN events
  THEN Out([State EXCEPT !.events = Without(events, {event_id}),
                         !.commits = commits + 1],
           redirect(url_view(events[event_id].dog_id),
                    << flash("Event deleted successfully!", "success") >>))
  ELSE Reply(redirect(url_home, << flash("Event not found", "error") >>))

\* a >= b for two datetimes, the comparison ORDER BY timestamp makes
dt_ge(a, b) == total_seconds(a, b) >= 0

\* Event.query.filter_by(dog_id=...).order_by(Event.timestamp.desc()).all(): every
\* order the database may return (rows of equal timestamp come in any order)
RECURSIVE order_by_timestamp_desc(_)
order_by_timestamp_desc(S) ==
  IF S = {} THEN { <<>> }
  ELSE UNION { { <<e>> \o q : q \in order_by_timestamp_desc(S \ {e}) } :
               e \in { x \in S : \A y \in S :
                                  dt_ge(events[x].timestamp, events[y].timestamp) } }
query_dog_events(dog_id) == order_by_timestamp_desc(events_of(dog_id))

\* .limit(50) of the page view
ViewLimit == 50
Limit(q, n) == SubSeq(q, 1, Min(n, Len(q)))
to_dicts(q) == [i \in 1..Len(q) |-> Event_to_dict(q[i])]

\* GET /view/<dog_id>; q is the order the events query returns
view(dog_id, q) ==
  IF ~is_authenticated THEN Reply(unauthorized("/view/" \o dog_id))
  ELSE IF dog_id \in DOMAIN dogs
  THEN Reply([render_template("view-edit.html", <<>>) EXCEPT
                !.dog = Some(Dog_to_dict(dog_id)),
                !.events = to_dicts(Limit(q, ViewLimit))])
  ELSE Reply(redirect(url_home, << flash("Dog not found", "error") >>))

(* ------------------------------- API ---------------------------------- *)
\* a JSON body {'success': ..., 'total': ..., 'error': ...}; its 'data' is the
\* response's dog, dogs or events
json(status, success, total, error) ==
  [NoResp EXCEPT !.status = status,
                 !.json = Some([success |-> success, total |-> total, error |-> error])]

\* The API routes read the store inside try/except. err is the exception the
\* query raises (None when the read succeeds); the except clause answers
\* jsonify({'success': False, 'error': str(e)}), 500.
StoreErrors == {None, Some("OperationalError")}

\* faulty variant: the route without @login_required
api_dogs_public(err) ==
  IF err # None THEN Reply(json(500, FALSE, None, err))
  ELSE Reply([json(200, TRUE, Some(Cardinality(DOMAIN dogs)), None) EXCEPT
                !.dogs = all_dogs])

\* GET /api/dogs
api_dogs(err) ==
  IF ~is_authenticated THEN Reply(unauthorized("/api/dogs"))
  ELSE IF err # None THEN Reply(json(500, FALSE, None, err))
  ELSE Reply([json(200, TRUE, Some(Cardinality(DOMAIN dogs)), None) EXCEPT
                !.dogs = all_dogs])

\* faulty variant: the route answers from the seed data when it has the dog
api_dog_seeded(dog_id, err) ==
  IF ~is_authenticated THEN Reply(unauthorized("/api/dogs/" \o dog_id))
  ELSE IF err # None THEN Reply(json(500, FALSE, None, err))
  ELSE IF dog_id \in DOMAIN dogs
  THEN Reply([json(200, TRUE, None, None) EXCEPT
                !.dog = Some([id |-> dog_id] @@
                             (IF dog_id \in DOMAIN sample_dogs
                              THEN sample_dogs[dog_id] ELSE dogs[dog_id]))])
  ELSE Reply(json(404, FALSE, None, Some("Dog not found")))

\* GET /api/dogs/<dog_id>
api_dog(dog_id, err) ==
  IF ~is_authenticated THEN Reply(unauthorized("/api/dogs/" \o dog_id))
  ELSE IF err # None THEN Reply(json(500, FALSE, None, err))
  ELSE IF dog_id \in DOMAIN dogs
  THEN Reply([json(200, TRUE, None, None) EXCEPT !.dog = Some(Dog_to_dict(dog_id))])
  ELSE Reply(json(404, FALSE, None, Some("Dog not found")))

\* GET /api/dogs/<dog_id>/events; q is the order the events query returns. The
\* route queries the events by dog_id only: it never looks the dog up.
api_dog_events(dog_id, q, err) ==
  IF ~is_authenticated THEN Reply(unauthorized("/api/dogs/" \o dog_id \o "/events"))
  ELSE IF err # None THEN Reply(json(500, FALSE, None, err))
  ELSE Reply([json(200, TRUE, Some(Len(q)), None) EXCEPT !.events = to_dicts(q)])

(* ----------------- db.session.commit() raises -------------------------- *)
\* The except clause a mutating route of application.py runs when its commit
\* raises e: the flash and the response. No clause calls db.session.rollback()
\* and none commits again. The transaction the failed commit leaves is not
\* persisted, so the store is as before the request.
except_clause(route, e) ==
  CASE route = "register" ->
         render_template("register.html", << flash("Error creating user: " \o e, "error") >>)
    [] route = "add" ->
         render_template("add-edit.html", << flash("Error adding dog: " \o e, "error") >>)
    [] route = "edit" ->
         redirect(url_home, << flash("Error editing dog: " \o e, "error") >>)
    [] route = "delete" ->
         redirect(url_home, << flash("Error deleting dog: " \o e, "error") >>)
    [] route = "add_event" ->
         render_template("add-edit-event.html",
                         << flash("Error adding event: " \o e, "error") >>)
    [] route = "edit_event" ->
         redirect(url_home, << flash("Error editing event: " \o e, "error") >>)
    [] route = "delete_event" ->
         redirect(url_home, << flash("Error deleting event: " \o e, "error") >>)
\* the outcome of the route: rollback tells whether db.session.rollback() was
\* called, attempts counts the calls of db.session.commit()
commit_raises(route, e) ==
  [st |-> State, resp |-> except_clause(route, e), rollback |-> FALSE, attempts |-> 1]

(* ---------------------------- database.py ----------------------------- *)
\* create_dog(dog_data): an id the caller supplies is kept, otherwise
\* 'dog-' + uuid4()[:8] is generated; the commit raises on a duplicate key
create_dog(dog_data, u) ==
  LET id == IF "id" \in DOMAIN dog_data /\ dog_data.id # ""
            THEN dog_data.id ELSE NewId("dog", u)
  IN IF id \in DOMAIN dogs THEN [st |-> State, result |-> None]
     ELSE [st |-> [State EXCEPT
                     !.dogs = [d \in DOMAIN dogs \cup {id} |->
                                 IF d = id
                                 THEN [name |-> dog_data.name,
                                       approx_age |-> dog_data.approx_age,
                                       size |-> dog_data.size,
                                       breed_type |-> dog_data.breed_type]
                                 ELSE dogs[d]],
                     !.commits = commits + 1],
           result |-> Some(id)]

\* update_dog(dog_id, dog_data): setattr for every key but 'id' that the object
\* has as an attribute. The columns are attributes, and so is the relationship
\* 'events': assigning it a list makes the listed events the dog's events, and
\* cascade='all, delete-orphan' deletes the events removed from it.
update_dog(dog_id, dog_data) ==
  IF dog_id \notin DOMAIN dogs THEN [st |-> State, result |-> None]
  ELSE LET old == dogs[dog_id]
           new == [k \in DOMAIN old |->
                     IF k \in DOMAIN dog_data THEN dog_data[k] ELSE old[k]]
           kept == IF "events" \in DOMAIN dog_data
                   THEN { dog_data.events[i] : i \in 1..Len(dog_data.events) }
                   ELSE events_of(dog_id)
           orphans == events_of(dog_id) \ kept
       IN [st |-> [State EXCEPT
                     !.dogs = [dogs EXCEPT ![dog_id] = new],
                     !.events = [e \in DOMAIN events \ orphans |->
                                   IF e \in kept
                                   THEN [events[e] EXCEPT !.dog_id = dog_id]
                                   ELSE events[e]],
                     !.commits = commits + 1],
           result |-> Some([id |-> dog_id] @@ new)]

\* update_event(event_id, event_data): likewise; the backref 'dog' is an
\* attribute of an event, and assigning it a Dog row sets the event's dog_id
update_event(event_id, event_data) ==
  IF event_id \notin DOMAIN events THEN [st |-> State, result |-> None]
  ELSE LET old == events[event_id]
           set == [k \in DOMAIN old |->
                     IF k \in DOMAIN event_data THEN event_data[k] ELSE old[k]]
           new == IF "dog" \in DOMAIN event_data
                  THEN [set EXCEPT !.dog_id = event_data.dog] ELSE set
       IN [st |-> [State EXCEPT !.events = [events EXCEPT ![event_id] = new],
                                !.commits = commits + 1],
           result |-> Some(event_id)]

(* ====================== Employee Directory ============================ *)
VARIABLES
  employees,   \* table employees: id -> row
  empResp      \* the response to the latest request (without the rows it carried)

empVars == <<employees, empResp>>

\* who sends a request: a visitor without a session, or a user of the given role
Requesters == {"anonymous", "employee", "manager", "admin"}

\* s.split(',')
RECURSIVE split_comma(_)
split_comma(s) ==
  IF \E i \in 1..Len(s) : Char(s, i) = ","
  THEN LET i == CHOOSE k \in 1..Len(s) :
                  Char(s, k) = "," /\ \A j \in 1..(k - 1) : Char(s, j) # ","
       IN << SubSeq(s, 1, i - 1) >> \o split_comma(SubSeq(s, i + 1, Len(s)))
  ELSE << s >>

\* json.dumps of a list of strings
json_escape(c) == IF c = "\"" THEN "\\\"" ELSE IF c = "\\" THEN "\\\\" ELSE c
RECURSIVE json_string_body(_)
json_string_body(s) ==
  IF Len(s) = 0 THEN "" ELSE json_escape(Char(s, 1)) \o json_string_body(Tail(s))
RECURSIVE json_items(_)
json_items(list) ==
  IF Len(list) = 0 THEN ""
  ELSE "\"" \o json_string_body(list[1]) \o "\""
       \o (IF Len(list) > 1 THEN ", " ELSE "") \o json_items(Tail(list))
json_dumps(list) == "[" \o json_items(list) \o "]"

\* json.loads of a text json.dumps wrote: a list of strings
RECURSIVE json_parse(_, _, _, _)
json_parse(text, acc, cur, inString) ==
  IF Len(text) = 0 THEN acc
  ELSE LET c == Char(text, 1)
       IN IF inString
          THEN IF c = "\\"
               THEN json_parse(SubSeq(text, 3, Len(text)), acc, cur \o Char(text, 2), TRUE)
               ELSE IF c = "\""
               THEN json_parse(Tail(text), Append(acc, cur), "", FALSE)
               ELSE json_parse(Tail(text), acc, cur \o c, TRUE)
          ELSE json_parse(Tail(text), acc, "", c = "\"")
json_loads(text) == json_parse(text, <<>>, "", FALSE)

\* dict.get(key)
get(d, key) == IF key \in DOMAIN d THEN Some(d[key]) ELSE None

\* Employee.__init__(**kwargs): an id is generated only when kwargs has no 'id' key
Employee_init(kwargs, u) ==
  IF "id" \notin DOMAIN kwargs THEN kwargs @@ ("id" :> Some(NewId("emp", u))) ELSE kwargs

\* Employee.from_dict(data): always passes id=data.get('id')
Employee_from_dict(data, u) ==
  Employee_init(
    ("id" :> get(data, "id")) @@ ("fullname" :> get(data, "fullname"))
    @@ ("location" :> get(data, "location")) @@ ("job_title" :> get(data, "job_title"))
    @@ ("badges" :> Some(json_dumps(IF "badges" \in DOMAIN data
                                    THEN data["badges"] ELSE <<>>))), u)

\* Employee.to_dict, of the row stored under id
EmployeeDict(id, row) ==
  [id |-> id, fullname |-> row.fullname, location |-> row.location,
   job_title |-> row.job_title,
   badges |-> IF row.badges # "" THEN json_loads(row.badges) ELSE <<>>]
Employee_to_dict(id) == EmployeeDict(id, employees[id])

\* db.session.add(employee); db.session.commit(): the INSERT fails on a NULL or
\* duplicate primary key and on a NULL in a nullable=False column
InsertFails(obj) ==
  \/ obj["id"] = None \/ obj["id"][1] \in DOMAIN employees
  \/ obj["fullname"] = None \/ obj["location"] = None \/ obj["job_title"] = None
EmployeeRow(obj) ==
  [fullname |-> obj["fullname"][1], location |-> obj["location"][1],
   job_title |-> obj["job_title"][1], badges |-> obj["badges"][1]]

\* get_employees(): err is the exception the query raises (None when it
\* succeeds); the function catches it, prints it and returns []
get_employees(err) ==
  IF err # None THEN {} ELSE { Employee_to_dict(id) : id \in DOMAIN employees }
\* get_employee(employee_id): catches the exception likewise and returns None
get_employee(employee_id, err) ==
  IF err # None THEN None
  ELSE IF employee_id \in DOMAIN employees THEN Some(Employee_to_dict(employee_id))
  ELSE None

\* create_employee(employee_data): the new table and the dict returned (None on error)
create_employee(data, u) ==
  LET obj == Employee_from_dict(data, u)
  IN IF InsertFails(obj) THEN [employees |-> employees, result |-> None]
     ELSE [employees |-> employees @@ (obj["id"][1] :> EmployeeRow(obj)),
           result |-> Some(EmployeeDict(obj["id"][1], EmployeeRow(obj)))]

\* update_employee(employee_id, employee_data)
update_employee(employee_id, data) ==
  IF employee_id \notin DOMAIN employees THEN [employees |-> employees, result |-> None]
  ELSE LET old == employees[employee_id]
           new == [k \in DOMAIN old |->
                     IF k \in DOMAIN data /\ k # "id"
                     THEN (IF k = "badges" THEN json_dumps(data[k]) ELSE data[k])
                     ELSE old[k]]
       IN [employees |-> [employees EXCEPT ![employee_id] = new],
           result |-> Some(EmployeeDict(employee_id, new))]

\* delete_employee(employee_id)
delete_employee(employee_id) ==
  IF employee_id \in DOMAIN employees
  THEN [employees |-> [id \in DOMAIN employees \ {employee_id} |-> employees[id]],
        result |-> TRUE]
  ELSE [employees |-> employees, result |-> FALSE]

(* ------------------------ employee routes ----------------------------- *)
EmpNoResp ==
  [status |-> 0, location |-> None, flashes |-> <<>>, template |-> None,
   employee |-> None, employees |-> {}, json |-> None]
emp_redirect(location, flashes) ==
  [EmpNoResp EXCEPT !.status = 302, !.location = Some(location), !.flashes = flashes]
emp_render(template, flashes) ==
  [EmpNoResp EXCEPT !.status = 200, !.template = Some(template), !.flashes = flashes]
jsonify(status, success, total, error) ==
  [EmpNoResp EXCEPT !.status = status,
                    !.json = Some([success |-> success, total |-> total, error |-> error])]
EmpOut(table, r) == [employees |-> table, resp |-> r]

\* request.form.get(name, '')
form_get(form, name) == IF name \in DOMAIN form THEN form[name] ELSE ""

RECURSIVE clean_badges(_)
\* [badge.strip() for badge in badges if badge.strip()]
clean_badges(list) ==
  IF Len(list) = 0 THEN <<>>
  ELSE (IF strip(list[1]) # "" THEN << strip(list[1]) >> ELSE <<>>) \o clean_badges(Tail(list))

\* the employee_data dict add and edit build from the form
employee_data(form) ==
  [fullname |-> strip(form_get(form, "fullname")),
   location |-> strip(form_get(form, "location")),
   job_title |-> strip(form_get(form, "job_title")),
   badges |-> IF form_get(form, "badges") # ""
              THEN split_comma(form_get(form, "badges")) ELSE <<>>]

\* "Validate required fields"
RequiredPresent(data) ==
  data.fullname # "" /\ data.location # "" /\ data.job_title # ""

\* GET /
emp_home(requester) ==
  EmpOut(employees, [emp_render("main.html", <<>>) EXCEPT !.employees = get_employees(None)])

\* GET or POST /add; u is the value uuid.uuid4() would return
emp_add(requester, method, form, u) ==
  IF method = "POST"
  THEN LET data == employee_data(form)
       IN IF ~RequiredPresent(data)
          THEN EmpOut(employees, emp_render("add-edit.html",
                        << flash("All fields are required", "error") >>))
          ELSE LET made == create_employee(
                             [data EXCEPT !.badges = clean_badges(data.badges)], u)
               IN IF made.result # None
                  THEN EmpOut(made.employees,
                              emp_redirect("/", << flash("Employee added successfully!",
                                                         "success") >>))
                  ELSE EmpOut(made.employees,
                              emp_render("add-edit.html",
                                         << flash("Error adding employee", "error") >>))
  ELSE EmpOut(employees, emp_render("add-edit.html", <<>>))

\* GET /view/<employee_id>
emp_view(requester, employee_id) ==
  IF get_employee(employee_id, None) # None
  THEN EmpOut(employees, [emp_render("view-edit.html", <<>>) EXCEPT
                            !.employee = get_employee(employee_id, None)])
  ELSE EmpOut(employees, emp_redirect("/", << flash("Employee not found", "error") >>))

\* GET or POST /edit/<employee_id>
emp_edit(requester, employee_id, method, form) ==
  IF get_employee(employee_id, None) = None
  THEN EmpOut(employees, emp_redirect("/", << flash("Employee not found", "error") >>))
  ELSE IF method = "POST"
  THEN LET data == employee_data(form)
       IN IF ~RequiredPresent(data)
          THEN EmpOut(employees, [emp_render("add-edit.html",
                        << flash("All fields are required", "error") >>) EXCEPT
                        !.employee = get_employee(employee_id, None)])
          ELSE LET done == update_employee(
                             employee_id,
                             [data EXCEPT !.badges = clean_badges(data.badges)])
               IN IF done.result # None
                  THEN EmpOut(done.employees,
                              emp_redirect("/view/" \o employee_id,
                                           << flash("Employee updated successfully!",
                                                    "success") >>))
                  ELSE EmpOut(done.employees,
                              [emp_render("add-edit.html",
                                 << flash("Error updating employee", "error") >>) EXCEPT
                                 !.employee = get_employee(employee_id, None)])
  ELSE EmpOut(employees, [emp_render("add-edit.html", <<>>) EXCEPT
                            !.employee = get_employee(employee_id, None)])

\* POST /delete/<employee_id>
emp_delete(requester, employee_id) ==
  LET done == delete_employee(employee_id)
  IN EmpOut(done.employees,
            emp_redirect("/", << IF done.result
                                 THEN flash("Employee deleted successfully!", "success")
                                 ELSE flash("Error deleting employee", "error") >>))

\* GET /api/employees
api_employees(requester, err) ==
  EmpOut(employees, [jsonify(200, TRUE, Some(Cardinality(get_employees(err))), None)
                     EXCEPT !.employees = get_employees(err)])

\* faulty variant: the 'not found' answer returned without its status
api_employee_200(requester, employee_id, err) ==
  IF get_employee(employee_id, err) # None
  THEN EmpOut(employees, [jsonify(200, TRUE, None, None) EXCEPT
                            !.employee = get_employee(employee_id, err)])
  ELSE EmpOut(employees, jsonify(200, FALSE, None, Some("Employee not found")))

\* GET /api/employees/<employee_id>
api_employee(requester, employee_id, err) ==
  IF get_employee(employee_id, err) # None
  THEN EmpOut(employees, [jsonify(200, TRUE, None, None) EXCEPT
                            !.employee = get_employee(employee_id, err)])
  ELSE EmpOut(employees, jsonify(404, FALSE, None, Some("Employee not found")))

\* create_employee, update_employee and delete_employee when their commit
\* raises: the except clause prints the error, calls db.session.rollback() and
\* returns None (False for delete); the route then flashes its error message
emp_commit_raises(route, employee_id) ==
  [employees |-> employees,
   resp |-> CASE route = "add" ->
                   emp_render("add-edit.html", << flash("Error adding employee", "error") >>)
              [] route = "edit" ->
                   [emp_render("add-edit.html",
                               << flash("Error updating employee", "error") >>) EXCEPT
                      !.employee = get_employee(employee_id, None)]
              [] route = "delete" ->
                   emp_redirect("/", << flash("Error deleting employee", "error") >>),
   rollback |-> TRUE, attempts |-> 1]

\* lambda-app/app/__init__.py init_sample_data
sample_employees ==
  ("emp-001" :> [fullname |-> "John Doe", location |-> "Seattle, WA",
                 job_title |-> "Software Engineer",
                 badges |-> json_dumps(<< "apple", "coffee", "bug" >>)])
  @@ ("emp-002" :> [fullname |-> "Jane Smith", location |-> "Austin, TX",
                    job_title |-> "Product Manager",
                    badges |-> json_dumps(<< "trophy", "plane", "camera" >>)])

(* ======================= requests of the model ======================== *)
\* what a form route is asked: a GET, or a POST of one of the given forms
Submissions(forms) ==
  { [method |-> "GET", form |-> f] : f \in {CHOOSE g \in forms : TRUE} }
  \cup { [method |-> "POST", form |-> f] : f \in forms }
\* the POST submissions of the given forms
Posts(forms) == { s \in Submissions(forms) : s.method = "POST" }

LoginForm(username, password) ==
  [csrf |-> TRUE, username |-> username, password |-> password]
LoginForms ==
  { LoginForm(<< "admin" >>, << "Admin123!" >>),
    LoginForm(<< "employee" >>, << "Employee123!" >>),
    LoginForm(<< "carol" >>, << "Secret12!" >>),
    LoginForm(<< "admin" >>, << "Employee123!" >>),
    [LoginForm(<< "admin" >>, << "Admin123!" >>) EXCEPT !.csrf = FALSE] }

\* values of the 'next' query parameter of /login
NextValues ==
  { None, Some(""), Some("/add"), Some("//evil.example/x"),
    Some("https://evil.example/") }

UserForm(username, email, full_name, password, role) ==
  [csrf |-> TRUE, username |-> username, email |-> email, full_name |-> full_name,
   password |-> password, role |-> role]
GoodUser ==
  UserForm(<< "carol" >>, << "carol@company.com" >>, << "Carol Jones" >>,
           << "Secret12!" >>, << "manager" >>)
UserForms ==
  { GoodUser,
    [GoodUser EXCEPT !.username = << "admin" >>],
    [GoodUser EXCEPT !.email = << "employee@company.com" >>],
    [GoodUser EXCEPT !.role = << "root" >>] }

DogForm(name, approx_age, size, breed_type) ==
  [csrf |-> TRUE, name |-> name, approx_age |-> approx_age, size |-> size,
   breed_type |-> breed_type]
GoodDog == DogForm(<< "Rex" >>, << "5 years" >>, << "large" >>, << "Mixed" >>)
DogForms ==
  { GoodDog,
    [GoodDog EXCEPT !.name = << " O'Neil " >>, !.size = << "small" >>],
    [GoodDog EXCEPT !.name = << "R2-D2" >>],
    [GoodDog EXCEPT !.size = << "huge" >>],
    [GoodDog EXCEPT !.breed_type = <<>>],
    [GoodDog EXCEPT !.csrf = FALSE] }

EventForm(dog_id, event_type, timestamp, end_timestamp, location, notes, scale) ==
  [csrf |-> TRUE, dog_id |-> dog_id, event_type |-> event_type,
   timestamp |-> timestamp, end_timestamp |-> end_timestamp, location |-> location,
   notes |-> notes, bristol_stool_scale |-> scale]
PlainWalk ==
  EventForm(<< "dog-001" >>, << "walk" >>, << "2024-01-16T09:00" >>, <<>>,
            << "" >>, << "" >>, << "" >>)
ScaledPoop ==
  EventForm(<< "dog-002" >>, << "poop" >>, << "2024-01-16T09:30" >>,
            << "2024-01-16T09:10" >>, << "Park" >>, <<>>, << "3" >>)
EventForms ==
  { PlainWalk,
    ScaledPoop,
    \* a scale on an event that is not a poop
    [PlainWalk EXCEPT !.dog_id = << "dog-002" >>, !.bristol_stool_scale = << "7" >>],
    \* a blank and a missing scale
    [ScaledPoop EXCEPT !.dog_id = << "dog-001" >>, !.bristol_stool_scale = << " " >>],
    [PlainWalk EXCEPT !.bristol_stool_scale = <<>>],
    \* submissions the form refuses
    [ScaledPoop EXCEPT !.bristol_stool_scale = << "9" >>],
    [PlainWalk EXCEPT !.event_type = << "run" >>],
    [PlainWalk EXCEPT !.dog_id = << "dog-404" >>],
    [PlainWalk EXCEPT !.timestamp = << "yesterday" >>],
    [PlainWalk EXCEPT !.end_timestamp = << "" >>],
    [PlainWalk EXCEPT !.csrf = FALSE] }
\* the changes /edit-event is asked to make: two it accepts, one it refuses
EditEventForms ==
  { ScaledPoop,
    [PlainWalk EXCEPT !.dog_id = << "dog-002" >>, !.bristol_stool_scale = << "7" >>],
    [ScaledPoop EXCEPT !.bristol_stool_scale = << "9" >>] }

\* ids a request may name: those of the store and one that is in no table
DogIds == DOMAIN dogs \cup {"dog-404"}
EventIds == DOMAIN events \cup {"evt-404"}

EmployeeForms ==
  { [fullname |-> " Ann Lee ", location |-> "Boston, MA", job_title |-> "Designer",
     badges |-> "apple, coffee"],
    [fullname |-> "Bob Ray", location |-> "Denver, CO", job_title |-> "Analyst"],
    [fullname |-> "   ", location |-> "Denver, CO", job_title |-> "Analyst"],
    [fullname |-> "Bob Ray", location |-> "Denver, CO"],
    [fullname |-> "<Bob>", location |-> "Denver, CO", job_title |-> "Analyst"] }
EmployeeIds == DOMAIN employees \cup {"emp-404"}

\* dictionaries handed to the functions of database.py and models.py
DogDicts ==
  { [name |-> "Rex", approx_age |-> "5 years", size |-> "large",
     breed_type |-> "Mixed"],
    [id |-> "rex", name |-> "Rex", approx_age |-> "5 years", size |-> "large",
     breed_type |-> "Mixed"] }
DogUpdates ==
  { [name |-> "Maxwell"], [id |-> "dog-999", size |-> "small"],
    [colour |-> "brown"], [events |-> <<>>] }
EventUpdates ==
  { [event_type |-> "nap"], [id |-> "evt-999", notes |-> Some("moved")],
    [dog |-> "dog-002"] }
EmployeeUpdates ==
  { [fullname |-> "J. Doe"], [id |-> "emp-999", location |-> "Remote"],
    [badges |-> <<"apple">>] }

(* ========================= the state machine ========================== *)
VARIABLES
  edits,          \* the edit requests in flight: what each has loaded and submitted
  registrations   \* the /register requests in flight: the form each has checked

vars == <<dogs, events, users, session, resp, commits, employees, empResp, edits, registrations>>

\* two requests, each served by its own worker with its own db.session
EditRequests == {"request-1", "request-2"}
NoEdit == [pc |-> "idle", dog_id |-> None, loaded |-> None, form |-> None, order |-> 0]
NoRegistration == [pc |-> "idle", id |-> None, form |-> None]

\* what the state keeps of a response: all of it but the lists of rows it carried
Head_of(r) ==
  [status |-> r.status, location |-> r.location, flashes |-> r.flashes,
   template |-> r.template, dog |-> r.dog, json |-> r.json]

EmpHead_of(r) ==
  [status |-> r.status, location |-> r.location, flashes |-> r.flashes,
   template |-> r.template, employee |-> r.employee, json |-> r.json]

\* the state after init_app() and create_app() on empty databases
Init ==
  /\ dogs = sample_dogs
  /\ events = sample_events
  /\ users = sample_users
  /\ session = None
  /\ resp = Head_of(NoResp)
  /\ commits = 0
  /\ employees = sample_employees
  /\ empResp = EmpHead_of(EmpNoResp)
  /\ edits = [r \in EditRequests |-> NoEdit]
  /\ registrations = [r \in EditRequests |-> NoRegistration]

\* a handler of the dog application runs and answers
Do(out) ==
  \E o \in {out} :
    /\ o.st.commits <= MaxCommits
    /\ dogs' = o.st.dogs
    /\ events' = o.st.events
    /\ users' = o.st.users
    /\ session' = o.st.session
    /\ commits' = o.st.commits
    /\ resp' = Head_of(o.resp)
    /\ UNCHANGED <<empVars, edits, registrations>>

\* a function of database.py runs: it touches the store and answers no request
DbDo(out) ==
  \E o \in {out} :
    /\ o.st.commits <= MaxCommits
    /\ dogs' = o.st.dogs
    /\ events' = o.st.events
    /\ commits' = o.st.commits
    /\ UNCHANGED <<users, session, resp, empVars, edits, registrations>>

Login ==
  \E s \in Submissions(LoginForms), n \in NextValues : Do(login(s.method, s.form, n))
Logout == Do(logout)
Register ==
  \E s \in Submissions(UserForms), u \in uuid4 : Do(register(s.method, s.form, u))
Home == Do(home)
Add == \E s \in Submissions(DogForms), u \in uuid4 : Do(add(s.method, s.form, u))
View == \E d \in DogIds : \E q \in query_dog_events(d) : Do(view(d, q))
Edit == \E d \in DogIds, s \in Submissions(DogForms) : Do(edit(d, s.method, s.form))
Delete == \E d \in DogIds : Do(delete(d))
AddEvent ==
  \E s \in Submissions(EventForms), u \in uuid4 : Do(add_event(s.method, s.form, u))
EditEvent ==
  \E e \in EventIds, s \in Submissions(EditEventForms) :
    Do(edit_event(e, s.method, s.form))
DeleteEvent == \E e \in EventIds : Do(delete_event(e))
ApiDogs == \E err \in StoreErrors : Do(api_dogs(err))
ApiDog == \E d \in DogIds, err \in StoreErrors : Do(api_dog(d, err))
ApiDogEvents ==
  \E d \in DogIds, err \in StoreErrors :
    \E q \in query_dog_events(d) : Do(api_dog_events(d, q, err))
DeleteDog == \E d \in DogIds : DbDo(delete_dog(d))

Next ==
  \/ Login \/ Logout \/ Register \/ Home
  \/ Add \/ View \/ Edit \/ Delete
  \/ AddEvent \/ EditEvent \/ DeleteEvent
  \/ ApiDogs \/ ApiDog \/ ApiDogEvents
  \/ DeleteDog

Spec == Init /\ [][Next]_vars

\* a handler of the employee application runs and answers
EmpDo(out) ==
  \E o \in {out} :
    /\ employees' = o.employees
    /\ empResp' = EmpHead_of(o.resp)
    /\ UNCHANGED <<dogVars, edits, registrations>>

EmpHome == \E r \in Requesters : EmpDo(emp_home(r))
EmpAdd ==
  \E r \in Requesters, s \in Submissions(EmployeeForms), u \in uuid4 :
    EmpDo(emp_add(r, s.method, s.form, u))
EmpView == \E r \in Requesters, id \in EmployeeIds : EmpDo(emp_view(r, id))
EmpEdit ==
  \E r \in Requesters, id \in EmployeeIds, s \in Submissions(EmployeeForms) :
    EmpDo(emp_edit(r, id, s.method, s.form))
EmpDelete == \E r \in Requesters, id \in EmployeeIds : EmpDo(emp_delete(r, id))
ApiEmployees == \E r \in Requesters, err \in StoreErrors : EmpDo(api_employees(r, err))
ApiEmployee ==
  \E r \in Requesters, id \in EmployeeIds, err \in StoreErrors :
    EmpDo(api_employee(r, id, err))

EmpNext ==
  \/ EmpHome \/ EmpAdd \/ EmpView \/ EmpEdit \/ EmpDelete
  \/ ApiEmployees \/ ApiEmployee

SpecEmp == Init /\ [][EmpNext]_vars

\* the functions of database.py and models.py, called directly
EmpDbDo(out) ==
  \E o \in {out} : employees' = o.employees
                   /\ UNCHANGED <<dogVars, empResp, edits, registrations>>
CreateDog == \E data \in DogDicts, u \in uuid4 : DbDo(create_dog(data, u))
UpdateDog == \E d \in DogIds, data \in DogUpdates : DbDo(update_dog(d, data))
UpdateEvent == \E e \in EventIds, data \in EventUpdates : DbDo(update_event(e, data))
UpdateEmployee ==
  \E id \in EmployeeIds, data \in EmployeeUpdates : EmpDbDo(update_employee(id, data))
DbNext == CreateDog \/ UpdateDog \/ DeleteDog \/ UpdateEvent \/ UpdateEmployee

SpecDb == Init /\ [][DbNext]_vars

\* exceptions db.session.commit() raises
CommitErrors == {"OperationalError"}
\* the request out answers reaches db.session.commit(), which raises e
CommitFails(out, route, e) ==
  /\ out.st.commits = commits + 1
  /\ Do(commit_raises(route, e))
DogCommitFails ==
  \E e \in CommitErrors, u \in uuid4 :
    \/ \E s \in Posts(UserForms) : CommitFails(register(s.method, s.form, u), "register", e)
    \/ \E s \in Posts(DogForms) : CommitFails(add(s.method, s.form, u), "add", e)
    \/ \E d \in DogIds, s \in Posts(DogForms) :
          CommitFails(edit(d, s.method, s.form), "edit", e)
    \/ \E d \in DogIds : CommitFails(delete(d), "delete", e)
    \/ \E s \in Posts(EditEventForms) :
          CommitFails(add_event(s.method, s.form, u), "add_event", e)
    \/ \E ev \in EventIds, s \in Posts(EditEventForms) :
          CommitFails(edit_event(ev, s.method, s.form), "edit_event", e)
    \/ \E ev \in EventIds : CommitFails(delete_event(ev), "delete_event", e)
\* the employee request reaches the commit of create_employee, update_employee
\* or delete_employee
EmpReachesCommit(route, employee_id, form) ==
  CASE route = "add" -> RequiredPresent(employee_data(form))
    [] route = "edit" ->
         employee_id \in DOMAIN employees /\ RequiredPresent(employee_data(form))
    [] route = "delete" -> employee_id \in DOMAIN employees
EmpCommitFails ==
  \E route \in {"add", "edit", "delete"}, id \in EmployeeIds, f \in EmployeeForms :
    /\ EmpReachesCommit(route, id, f)
    /\ EmpDo(emp_commit_raises(route, id))
FaultNext == Login \/ Logout \/ Delete \/ DeleteEvent \/ EmpDelete
             \/ DogCommitFails \/ EmpCommitFails

SpecFaults == Init /\ [][FaultNext]_vars

(* ----------------------- concurrent edits ------------------------------ *)
\* The edit form as the GET of /edit/<dog_id> pre-populates it from the row,
\* submitted with one field changed, or filled in anew
EditedForms(row) ==
  { DogForm(<< "Maxwell" >>, << row.approx_age >>, << row.size >>, << row.breed_type >>),
    DogForm(<< row.name >>, << row.approx_age >>, << "large" >>, << row.breed_type >>),
    GoodDog }

\* db.session.commit() of a loaded and assigned object: the UPDATE sets the
\* columns whose assigned value differs from the value the session loaded, and
\* no other column
flush_update(current, loaded, assigned) ==
  [k \in DOMAIN current |-> IF assigned[k] # loaded[k] THEN assigned[k] ELSE current[k]]

\* edit, first half: login_required, Dog.query.get(dog_id), validate_on_submit
EditRead(r) ==
  \E d \in DOMAIN dogs : \E f \in EditedForms(dogs[d]) :
    /\ edits[r].pc = "idle"
    /\ is_authenticated /\ DogFormValid("POST", f)
    /\ edits' = [edits EXCEPT ![r] = [pc |-> "loaded", dog_id |-> Some(d),
                                      loaded |-> Some(dogs[d]), form |-> Some(f),
                                      order |-> 0]]
    /\ UNCHANGED <<dogVars, empVars, registrations>>
\* edit, second half: the four assignments, db.session.commit(), flash, redirect
EditCommit(r) ==
  /\ edits[r].pc = "loaded"
  /\ edits[r].dog_id[1] \in DOMAIN dogs
  /\ commits < MaxCommits
  /\ dogs' = [dogs EXCEPT ![edits[r].dog_id[1]] =
                 flush_update(@, edits[r].loaded[1], DogRow(edits[r].form[1]))]
  /\ commits' = commits + 1
  /\ edits' = [edits EXCEPT ![r].pc = "done", ![r].order = commits + 1]
  /\ resp' = Head_of(redirect(url_view(edits[r].dog_id[1]),
                              << flash("Dog updated successfully!", "success") >>))
  /\ UNCHANGED <<events, users, session, empVars, registrations>>
ConcNext ==
  \/ Login \/ Logout
  \/ \E r \in EditRequests : EditRead(r) \/ EditCommit(r)

SpecConc == Init /\ [][ConcNext]_vars

(* ------------------- requests of several sessions --------------------- *)
\* The server keeps no session of its own: each request carries the cookie of
\* the browser session that sent it, and load_user looks its user up.  The
\* next request comes from another session, signed in earlier as an active
\* user of the table.
NextSession ==
  /\ \E id \in DOMAIN users :
       /\ users[id].is_active
       /\ session # Some(id)
       /\ session' = Some(id)
  /\ UNCHANGED <<dogs, events, users, resp, commits, empVars, edits, registrations>>
SessionsNext ==
  \/ Login \/ Logout \/ Register \/ NextSession
  \/ Add \/ AddEvent

\* the requests of one session: every route of the dog application
RequestNext ==
  \/ Login \/ Logout \/ Register \/ Home
  \/ Add \/ View \/ Edit \/ Delete
  \/ AddEvent \/ EditEvent \/ DeleteEvent
  \/ ApiDogs \/ ApiDog \/ ApiDogEvents

SpecRequests == Init /\ [][RequestNext]_vars

SpecSessions == Init /\ [][SessionsNext]_vars

(* --------------------------- initialisation --------------------------- *)
\* whether the database enforces events.dog_id REFERENCES dogs.id: PostgreSQL
\* (config.py) does, SQLite (run-dev.py, run-production.py) does not, no
\* PRAGMA foreign_keys being issued
ForeignKeys == {"enforced", "ignored"}

\* faulty variant: the sample rows are added whatever the tables hold
init_app_always_seeds(st, fk) ==
  [st EXCEPT !.dogs = sample_dogs @@ st.dogs,
             !.events = sample_events @@ st.events,
             !.users = sample_users @@ st.users]

\* init_app on the store st: create_all, then each table that is empty gets
\* its sample rows; a failing commit is rolled back and logged
init_app_of(st, fk) ==
  LET \* init_sample_data
      seeded_dogs == IF DOMAIN st.dogs = {} THEN sample_dogs ELSE st.dogs
      \* init_sample_events: the INSERTs fail on a dog_id that is no dog
      seeded_events ==
        IF DOMAIN st.events # {} THEN st.events
        ELSE IF fk = "enforced" /\
                \E e \in DOMAIN sample_events :
                  sample_events[e].dog_id \notin DOMAIN seeded_dogs
        THEN st.events
        ELSE sample_events
      \* init_sample_users: nothing when a user named admin exists
      seeded_users ==
        IF DOMAIN st.users # {} THEN st.users
        ELSE IF \E id \in DOMAIN st.users : st.users[id].username = "admin"
        THEN st.users
        ELSE sample_users
  IN [st EXCEPT !.dogs = seeded_dogs, !.events = seeded_events,
                !.users = seeded_users]
init_app(fk) == init_app_of(State, fk)

\* create_app of the employee application on the table emps
create_app_of(emps) == IF DOMAIN emps = {} THEN sample_employees ELSE emps

\* the process of the dog application starts again
InitApp ==
  \E fk \in ForeignKeys :
    /\ dogs' = init_app(fk).dogs
    /\ events' = init_app(fk).events
    /\ users' = init_app(fk).users
    /\ UNCHANGED <<session, resp, commits, empVars, edits, registrations>>
\* the process of the employee application starts again
EmpCreateApp ==
  /\ employees' = create_app_of(employees)
  /\ UNCHANGED <<dogVars, empResp, edits, registrations>>

InitNext ==
  \/ Login \/ Logout \/ Register
  \/ Add \/ Edit \/ Delete
  \/ AddEvent \/ EditEvent \/ DeleteEvent
  \/ InitApp

SpecInit == Init /\ [][InitNext]_vars

RestartNext ==
  \/ Login \/ Logout \/ Delete \/ DeleteEvent \/ InitApp
  \/ EmpDelete \/ EmpCreateApp

SpecRestart == Init /\ [][RestartNext]_vars

(* -------------------- concurrent registrations ------------------------- *)
\* forms that pass the two existence checks on the seeded table, and clash
\* with each other on the username, on the email, or on both
RegisterForms ==
  { GoodUser,
    [GoodUser EXCEPT !.username = << "dave" >>],
    [GoodUser EXCEPT !.email = << "dave@company.com" >>] }

\* faulty variant: the users table without its unique constraints
insert_user_no_unique(id, row) ==
  IF id \in DOMAIN users THEN [users |-> users, ok |-> FALSE]
  ELSE [users |-> users @@ (id :> row), ok |-> TRUE]

\* db.session.add(user); db.session.commit(): the INSERT into users fails on a
\* duplicate primary key and on a duplicate of the unique columns username
\* and email
insert_user(id, row) ==
  IF \/ id \in DOMAIN users
     \/ user_by_username(row.username) # {}
     \/ user_by_email(row.email) # {}
  THEN [users |-> users, ok |-> FALSE]
  ELSE [users |-> users @@ (id :> row), ok |-> TRUE]

\* register, first half: the admin test, validate_on_submit and the two
\* queries "username exists", "email exists" finding nothing
RegisterCheck(r) ==
  \E f \in RegisterForms :
    /\ registrations[r].pc = "idle"
    /\ is_authenticated /\ current_user[1].role = "admin"
    /\ UserFormValid("POST", f)
    /\ user_by_username(f.username[1]) = {} /\ user_by_email(f.email[1]) = {}
    /\ registrations' = [registrations EXCEPT ![r] =
                           [pc |-> "checked",
                            \* uuid.uuid4(): no two requests draw the same
                            id |-> Some(NewId("user",
                                     IF r = "request-1" THEN UuidPool[1]
                                                        ELSE UuidPool[2])),
                            form |-> Some(f)]]
    /\ UNCHANGED <<dogVars, empVars, edits>>
\* register, second half: User(...), set_password, add, commit; the except
\* clause flashes the error
RegisterCommit(r) ==
  /\ registrations[r].pc = "checked"
  /\ commits < MaxCommits
  /\ LET f == registrations[r].form[1]
         ins == insert_user(registrations[r].id[1],
                            [username |-> f.username[1], email |-> f.email[1],
                             password_hash |-> hashpw(f.password[1]),
                             full_name |-> f.full_name[1], role |-> f.role[1],
                             is_active |-> TRUE])
     IN /\ users' = ins.users
        /\ commits' = IF ins.ok THEN commits + 1 ELSE commits
        /\ registrations' = [registrations EXCEPT
                               ![r].pc = IF ins.ok THEN "done" ELSE "failed"]
        /\ resp' = IF ins.ok
                   THEN Head_of(redirect(url_home,
                          << flash("User " \o f.username[1] \o " created successfully!",
                                   "success") >>))
                   ELSE Head_of(render_template("register.html",
                          << flash("Error creating user: IntegrityError", "error") >>))
  /\ UNCHANGED <<dogs, events, session, empVars, edits>>
RegNext ==
  \/ Login \/ Logout
  \/ \E r \in EditRequests : RegisterCheck(r) \/ RegisterCommit(r)

SpecReg == Init /\ [][RegNext]_vars

\* The two variants are separate deployments with separate databases: a run of
\* SpecBoth exercises one of them and leaves the other as initialised.
DogAppIdle ==
  /\ dogs = sample_dogs /\ events = sample_events /\ users = sample_users
  /\ session = None /\ resp = Head_of(NoResp) /\ commits = 0
EmpAppIdle == employees = sample_employees /\ empResp = EmpHead_of(EmpNoResp)
BothNext == (EmpAppIdle /\ Next) \/ (DogAppIdle /\ EmpNext)

SpecBoth == Init /\ [][BothNext]_vars

(* ============================ properties ============================== *)
\* the store st a handler leaves is the store it found
SameStore(st) == st.dogs = dogs /\ st.events = events /\ st.users = users
\* the one flash message of a response
Flashed(r, message) == Len(r.flashes) = 1 /\ r.flashes[1].message = message

(* ------------------------------- C1 ----------------------------------- *)
\* the store st is the present one less dog d and each of d's events
DeletedWithEvents(d, st) ==
  /\ d \notin DOMAIN st.dogs
  /\ \A e \in DOMAIN st.events : st.events[e].dog_id # d
  /\ DOMAIN st.events \subseteq DOMAIN events
  /\ \A e \in DOMAIN events :
       events[e].dog_id # d => e \in DOMAIN st.events /\ st.events[e] = events[e]

\* C1: in every reachable store (whatever add-event and edit-event requests
\* led to it), deleting a dog that is there, by an admin's POST /delete/<dog_id>
\* or by delete_dog, leaves no event whose dog_id is the deleted dog's id and
\* leaves every event of the other dogs as it was.
CascadeOnDelete ==
  \A d \in DOMAIN dogs :
    /\ (is_authenticated /\ current_user[1].role = "admin")
         => DeletedWithEvents(d, delete(d).st)
    /\ DeletedWithEvents(d, delete_dog(d).st)

\* an admin has deleted a seeded dog after an event was added or edited: none of
\* the dog's events is left, and events of another dog are
DeletedAfterEventChange ==
  /\ Flashed(resp, "Dog deleted successfully!")
  /\ \E d \in DOMAIN sample_dogs : d \notin DOMAIN dogs /\ events_of(d) = {}
  /\ \E e \in DOMAIN events :
       e \notin DOMAIN sample_events \/ events[e] # sample_events[e]

(* ------------------------------- C2 ----------------------------------- *)
\* the answer is the denial: the 'Access denied' flash and a redirect to home,
\* and nothing of the store has changed
Denied(out) ==
  /\ out.resp.status = 302 /\ out.resp.location = Some("/")
  /\ out.resp.flashes =
       << [message |-> "Access denied. Admin privileges required.",
           category |-> "error"] >>
  /\ SameStore(out.st)

\* C2: a logged-in user whose role is not 'admin' who requests /delete/<dog_id>,
\* /delete-event/<event_id> or /register (each in the methods the route takes,
\* with any form) is denied, and dogs, events and users stay as they were.
NonAdminDenied ==
  (is_authenticated /\ current_user[1].role # "admin") =>
    /\ \A d \in DogIds : Denied(delete(d))
    /\ \A e \in EventIds : Denied(delete_event(e))
    /\ \A s \in Submissions(UserForms), u \in uuid4 :
         Denied(register(s.method, s.form, u))

\* a manager has just been denied
ManagerWasDenied ==
  /\ is_authenticated /\ current_user[1].role = "manager"
  /\ resp.status = 302 /\ resp.location = Some("/")
  /\ Flashed(resp, "Access denied. Admin privileges required.")

(* ------------------------------- C3 ----------------------------------- *)
\* what each protected route answers to each request of the model
ProtectedOutcomes ==
  {home, logout}
  \cup { api_dogs(err) : err \in StoreErrors }
  \cup { register(s.method, s.form, u) : s \in Submissions(UserForms), u \in uuid4 }
  \cup { add(s.method, s.form, u) : s \in Submissions(DogForms), u \in uuid4 }
  \cup UNION { { view(d, q) : q \in query_dog_events(d) } : d \in DogIds }
  \cup UNION { { edit(d, s.method, s.form) : s \in Submissions(DogForms) } : d \in DogIds }
  \cup { delete(d) : d \in DogIds }
  \cup { add_event(s.method, s.form, u) : s \in Submissions(EventForms), u \in uuid4 }
  \cup UNION { { edit_event(e, s.method, s.form) : s \in Submissions(EventForms) } :
               e \in EventIds }
  \cup { delete_event(e) : e \in EventIds }
  \cup { api_dog(d, err) : d \in DogIds, err \in StoreErrors }
  \cup UNION { { api_dog_events(d, q, err) : q \in query_dog_events(d), err \in StoreErrors }
               : d \in DogIds }

\* C3: without an authenticated session, every protected route redirects to the
\* login page, returns no dog and no event, and leaves dogs, events and users
\* unchanged.
LoginRequired ==
  ~is_authenticated =>
    \A out \in ProtectedOutcomes :
      /\ out.resp.status = 302
      /\ out.resp.location # None /\ startswith(out.resp.location[1], "/login")
      /\ out.resp.dog = None /\ out.resp.dogs = {}
      /\ out.resp.event = None /\ out.resp.events = <<>>
      /\ out.resp.json = None
      /\ SameStore(out.st)

\* a visitor without a session asked for the events API of a dog and was sent
\* to the login page
VisitorSentToLogin ==
  /\ session = None
  /\ resp.status = 302
  /\ resp.location = Some("/login?next=%2Fapi%2Fdogs%2Fdog-001%2Fevents")
  /\ Flashed(resp, "Please log in to access this page.")

(* ------------------------------- C4 ----------------------------------- *)
\* C4: the employee table changes only through requests of an authenticated
\* session, and POST /delete/<employee_id> deletes only for an authenticated
\* admin; a request of anyone else changes nothing.
EmployeeWritesGuarded ==
  /\ \A s \in Submissions(EmployeeForms), u \in uuid4 :
       emp_add("anonymous", s.method, s.form, u).employees = employees
  /\ \A id \in EmployeeIds, s \in Submissions(EmployeeForms) :
       emp_edit("anonymous", id, s.method, s.form).employees = employees
  /\ \A r \in Requesters \ {"admin"}, id \in EmployeeIds :
       emp_delete(r, id).employees = employees

(* ------------------------------- C5 ----------------------------------- *)
\* C5: after a successful login the redirect goes to the 'next' parameter or to
\* the home page, and for no value of 'next' to another origin: the target is
\* a path of this site (it starts with one '/', not with '//' or '/\').
LoginRedirectSameOrigin ==
  ~is_authenticated =>
    \A s \in Posts(LoginForms), n \in NextValues :
      LET out == login(s.method, s.form, n)
      IN out.st.session # None =>
           LET target == out.resp.location[1]
           IN /\ target = "/" \/ (n # None /\ target = n[1])
              /\ startswith(target, "/")
              /\ ~startswith(target, "//") /\ ~startswith(target, "/\\")

(* ------------------------------- C6 ----------------------------------- *)
\* the scale values the form is said to accept: the empty choice (which a
\* submission without the field also stands for) and '1'..'7'
AcceptedScales ==
  { <<>>, << "" >>, << "1" >>, << "2" >>, << "3" >>, << "4" >>, << "5" >>, << "6" >>,
    << "7" >> }

\* C6: every stored event's bristol_stool_scale is an integer in 1..7 or absent;
\* an add-event or edit-event submission whose scale is anything but the empty
\* string or one of '1'..'7' fails validation and leaves the store unchanged,
\* and the empty string is stored as absent.
BristolScaleValidated ==
  /\ \A e \in DOMAIN events :
       events[e].bristol_stool_scale = None \/ events[e].bristol_stool_scale[1] \in 1..7
  /\ is_authenticated =>
       \A f \in EventForms :
         /\ \A u \in uuid4 :
              LET out == add_event("POST", f, u)
              IN /\ f.bristol_stool_scale \notin AcceptedScales =>
                      EventFormValid("POST", f) = FALSE /\ SameStore(out.st)
                 /\ f.bristol_stool_scale = << "" >> =>
                      \A e \in DOMAIN out.st.events \ DOMAIN events :
                        out.st.events[e].bristol_stool_scale = None
         /\ \A e \in DOMAIN events :
              LET out == edit_event(e, "POST", f)
              IN /\ f.bristol_stool_scale \notin AcceptedScales =>
                      EventFormValid("POST", f) = FALSE /\ SameStore(out.st)
                 /\ (f.bristol_stool_scale = << "" >> /\ out.st.events # events) =>
                      out.st.events[e].bristol_stool_scale = None

(* ------------------------------- C7 ----------------------------------- *)
\* C7: a stored event has a bristol_stool_scale only if its event_type is
\* 'poop', after every add-event and every edit-event.
ScaleOnlyOnPoop ==
  \A e \in DOMAIN events :
    events[e].bristol_stool_scale # None => events[e].event_type = "poop"

(* ------------------------------- C8 ----------------------------------- *)
\* end - start in whole minutes (the stored timestamps carry no seconds)
minutes_between(end, start) ==
  (toordinal(end) - toordinal(start)) * 1440
  + (end.hour - start.hour) * 60 + (end.minute - start.minute)

\* C8: Event.to_dict gives, for every stored event that has an end_timestamp, a
\* 'duration' equal to end_timestamp - timestamp in minutes, and for every
\* event without an end_timestamp the 'duration' None.
DurationInMinutes ==
  \A id \in DOMAIN events :
    LET e == events[id]
        d == Event_to_dict(id).duration
    IN IF e.end_timestamp = None THEN d = None
       ELSE /\ d # None
            /\ d[1].den = 1
            /\ d[1].num = minutes_between(e.end_timestamp[1], e.timestamp)

\* the page of a dog was rendered while the dog had an event the form wrote with
\* an end before its start, an event with a later end, and an event without end
DurationsOnView ==
  /\ resp.template = Some("view-edit.html") /\ resp.dog # None
  /\ LET mine == events_of(resp.dog[1].id)
         span(e) == minutes_between(events[e].end_timestamp[1], events[e].timestamp)
     IN /\ \E e \in mine : events[e].end_timestamp = None
        /\ \E e \in mine : events[e].end_timestamp # None /\ span(e) < 0
        /\ \E e \in mine : events[e].end_timestamp # None /\ span(e) > 0

(* ------------------------------- C9 ----------------------------------- *)
\* the store st is the present one plus exactly one dog, which holds the
\* submitted values of form f
AddedOneDog(st, f) ==
  /\ st.events = events /\ st.users = users
  /\ DOMAIN dogs \subseteq DOMAIN st.dogs
  /\ \A id \in DOMAIN dogs : st.dogs[id] = dogs[id]
  /\ Cardinality(DOMAIN st.dogs \ DOMAIN dogs) = 1
  /\ \A id \in DOMAIN st.dogs \ DOMAIN dogs :
       /\ st.dogs[id].name = f.name[1] /\ st.dogs[id].approx_age = f.approx_age[1]
       /\ st.dogs[id].size = f.size[1] /\ st.dogs[id].breed_type = f.breed_type[1]

\* the store st is the present one plus exactly one event, which holds the
\* submitted dog_id, event_type and timestamp of form f
AddedOneEvent(st, f) ==
  /\ st.dogs = dogs /\ st.users = users
  /\ DOMAIN events \subseteq DOMAIN st.events
  /\ \A id \in DOMAIN events : st.events[id] = events[id]
  /\ Cardinality(DOMAIN st.events \ DOMAIN events) = 1
  /\ \A id \in DOMAIN st.events \ DOMAIN events :
       /\ st.events[id].dog_id = f.dog_id[1]
       /\ st.events[id].event_type = f.event_type[1]
       /\ Prefix(isoformat(st.events[id].timestamp), 16) = f.timestamp[1]

EmployeeAddCreatesOne ==
  \A r \in Requesters, s \in Posts(EmployeeForms), u \in uuid4 :
    RequiredPresent(employee_data(s.form)) =>
      LET after == emp_add(r, s.method, s.form, u).employees
          new == DOMAIN after \ DOMAIN employees
      IN /\ Cardinality(new) = 1
         /\ \A id \in DOMAIN employees : id \in DOMAIN after /\ after[id] = employees[id]
         /\ \A id \in new :
              /\ WellFormedId(id, "emp")
              /\ after[id].fullname = strip(s.form.fullname)
              /\ after[id].location = strip(s.form.location)
              /\ after[id].job_title = strip(s.form.job_title)

(* ---------------- C11: one record, page and API ------------------------ *)
\* C11: for every id in the store, the fields the page /view/<id> shows and
\* the 'data' object /api/<entities>/<id> returns are the same record (the id
\* asked for, the field values stored under it), in the dog variant (for a
\* signed-in user) and in the employee variant.
ViewMatchesApi ==
  /\ is_authenticated =>
        \A d \in DOMAIN dogs : \A q \in query_dog_events(d) :
          LET page == view(d, q).resp
              api == api_dog(d, None).resp
          IN /\ page.template = Some("view-edit.html")
             /\ api.json # None /\ api.json[1].success
             /\ page.dog = api.dog
             /\ api.dog = Some([id |-> d] @@ dogs[d])
  /\ \A r \in Requesters : \A id \in DOMAIN employees :
        LET page == emp_view(r, id).resp
            api == api_employee(r, id, None).resp
        IN /\ page.template = Some("view-edit.html")
           /\ api.json # None /\ api.json[1].success
           /\ page.employee = api.employee
           /\ api.employee # None
           /\ api.employee[1].id = id
           /\ api.employee[1].fullname = employees[id].fullname
           /\ api.employee[1].location = employees[id].location
           /\ api.employee[1].job_title = employees[id].job_title

\* the API has answered with a dog that a form changed or created
ApiServedChangedDog ==
  /\ resp.json # None /\ resp.status = 200 /\ resp.dog # None
  /\ resp.dog[1].id \in DOMAIN dogs
  /\ resp.dog[1].id \in DOMAIN sample_dogs => dogs[resp.dog[1].id] # sample_dogs[resp.dog[1].id]
  /\ resp.dog[1] = [id |-> resp.dog[1].id] @@ dogs[resp.dog[1].id]

(* ---------------- C12: the event list, page and API -------------------- *)
\* C12: for every dog, the list of events the page /view/<dog_id> shows is the
\* list /api/dogs/<dog_id>/events returns as 'data', in the same order (start
\* timestamp descending), and the API's 'total' is the number of events of
\* that dog. The page and the API each run their own query.
EventListsAgree ==
  is_authenticated =>
    \A d \in DOMAIN dogs :
      \A qv \in query_dog_events(d) : \A qa \in query_dog_events(d) :
        LET page == view(d, qv).resp
            api == api_dog_events(d, qa, None).resp
        IN /\ api.json # None /\ api.json[1].success
           /\ api.json[1].total = Some(Cardinality(events_of(d)))
           /\ page.events = api.events

(* ---------------- C13: what an update changes ------------------------- *)
\* table after the call is table before it, but for the row id, whose fields
\* named in data (other than 'id') hold the values of data
Overwritten(before, after, id, data) ==
  /\ DOMAIN after = DOMAIN before
  /\ \A other \in DOMAIN before \ {id} : after[other] = before[other]
  /\ \A k \in DOMAIN before[id] :
        after[id][k] = IF k \in DOMAIN data THEN data[k] ELSE before[id][k]

\* C13: update_dog, update_event and update_employee, called with an existing
\* id, overwrite only the data fields the dictionary names, never change the
\* id, and leave the other fields, the other records and the record's child
\* events unchanged; called with an id that is not in the store they return
\* None and change nothing.
UpdateOverwritesNamedFields ==
  /\ \A d \in DogIds, data \in DogUpdates :
        LET out == update_dog(d, data)
        IN IF d \in DOMAIN dogs
           THEN /\ out.result # None /\ out.result[1].id = d
                /\ Overwritten(dogs, out.st.dogs, d, data)
                /\ out.st.events = events
           ELSE out.result = None /\ SameStore(out.st)
  /\ \A e \in EventIds, data \in EventUpdates :
        LET out == update_event(e, data)
        IN IF e \in DOMAIN events
           THEN /\ out.result = Some(e)
                /\ Overwritten(events, out.st.events, e, data)
                /\ out.st.dogs = dogs
           ELSE out.result = None /\ SameStore(out.st)
  /\ \A id \in EmployeeIds, data \in EmployeeUpdates :
        LET out == update_employee(id, data)
        IN IF id \in DOMAIN employees
           THEN /\ out.result # None /\ out.result[1].id = id
                /\ Overwritten(employees, out.employees, id,
                               IF "badges" \in DOMAIN data
                               THEN [data EXCEPT !.badges = json_dumps(data.badges)]
                               ELSE data)
           ELSE out.result = None /\ out.employees = employees

(* ---------------- C14: the form of the primary keys -------------------- *)
\* C14: in every store state, from initialisation (seeding included) on, every
\* primary key of a dog, event, user or employee is '<prefix>-<8 hex chars>'
\* with prefix dog, evt, user or emp.
PrimaryKeysWellFormed ==
  /\ \A id \in DOMAIN dogs : WellFormedId(id, "dog")
  /\ \A id \in DOMAIN events : WellFormedId(id, "evt")
  /\ \A id \in DOMAIN users : WellFormedId(id, "user")
  /\ \A id \in DOMAIN employees : WellFormedId(id, "emp")

(* ---------------- C15: a record that is not there ---------------------- *)
\* ids the store does not hold
MissingDogs == (DOMAIN sample_dogs \cup {"dog-404"}) \ DOMAIN dogs
MissingEvents == (DOMAIN sample_events \cup {"evt-404"}) \ DOMAIN events
MissingEmployees == (DOMAIN sample_employees \cup {"emp-404"}) \ DOMAIN employees
\* a 'not found' flash and a redirect to home
NotFoundRedirect(r) ==
  /\ r.status = 302 /\ r.location = Some(url_home) /\ r.template = None
  /\ Len(r.flashes) = 1
  /\ r.flashes[1].message \in {"Dog not found", "Event not found", "Employee not found"}
\* status 404 and a body with success=false and an error string
NotFoundJson(r) ==
  /\ r.status = 404 /\ r.json # None
  /\ ~r.json[1].success /\ r.json[1].error # None

\* page routes of the dog variant, for a signed-in user
MissingDogPages ==
  /\ \A d \in MissingDogs :
        /\ \A q \in query_dog_events(d) :
              NotFoundRedirect(view(d, q).resp) /\ SameStore(view(d, q).st)
        /\ \A s \in Submissions(DogForms) :
              /\ NotFoundRedirect(edit(d, s.method, s.form).resp)
              /\ SameStore(edit(d, s.method, s.form).st)
        /\ current_user[1].role = "admin" =>
              NotFoundRedirect(delete(d).resp) /\ SameStore(delete(d).st)
        /\ NotFoundJson(api_dog(d, None).resp) /\ SameStore(api_dog(d, None).st)
  /\ \A e \in MissingEvents :
        /\ \A s \in Submissions(EventForms) :
              /\ NotFoundRedirect(edit_event(e, s.method, s.form).resp)
              /\ SameStore(edit_event(e, s.method, s.form).st)
        /\ current_user[1].role = "admin" =>
              NotFoundRedirect(delete_event(e).resp) /\ SameStore(delete_event(e).st)
\* the same routes of the employee variant, for every requester
MissingEmployeePages ==
  \A r \in Requesters, id \in MissingEmployees :
    /\ NotFoundRedirect(emp_view(r, id).resp) /\ emp_view(r, id).employees = employees
    /\ \A s \in Submissions(EmployeeForms) :
          /\ NotFoundRedirect(emp_edit(r, id, s.method, s.form).resp)
          /\ emp_edit(r, id, s.method, s.form).employees = employees
    /\ NotFoundRedirect(emp_delete(r, id).resp) /\ emp_delete(r, id).employees = employees
    /\ NotFoundJson(api_employee(r, id, None).resp)
    /\ api_employee(r, id, None).employees = employees

\* C15: for every id that is not in the store, /view/<id>, /edit/<id>,
\* /edit-event/<id> (and /delete/<id>, /delete-event/<id> for an admin) answer
\* with a 'not found' flash and a redirect to home, /api/<entities>/<id>
\* answers 404 with success=false and an error string, and the store is
\* unchanged.
MissingRecordNotFound ==
  /\ is_authenticated => MissingDogPages
  /\ MissingEmployeePages

(* ---------------- C16: the events of a dog that is not there ----------- *)
\* C16: GET /api/dogs/<dog_id>/events for a dog_id that is not in the store
\* answers 404 with success=false and an error string.
MissingDogEventsNotFound ==
  is_authenticated =>
    \A d \in MissingDogs : \A q \in query_dog_events(d) :
      NotFoundJson(api_dog_events(d, q, None).resp)

(* ---------------- C17: the JSON envelope ------------------------------ *)
\* r is a JSON envelope: status 200, 404 or 500; success=true comes with
\* status 200 and the data (hasData), and with total = count on a list
\* endpoint (count is None on the others); success=false comes with status 404
\* or 500 and an error string
Envelope(r, hasData, count) ==
  /\ r.json # None /\ r.template = None /\ r.location = None
  /\ r.status \in {200, 404, 500}
  /\ r.json[1].success =>
        /\ r.status = 200 /\ hasData /\ r.json[1].error = None
        /\ count # None => r.json[1].total = count
  /\ ~r.json[1].success => r.status \in {404, 500} /\ r.json[1].error # None

\* every answer of the dog API at this state is an envelope
DogApiEnvelopes ==
  \A err \in StoreErrors :
    /\ LET r == api_dogs(err).resp
       IN Envelope(r, TRUE, Some(Cardinality(r.dogs)))
    /\ \A d \in DogIds :
          /\ LET r == api_dog(d, err).resp IN Envelope(r, r.dog # None, None)
          /\ \A q \in query_dog_events(d) :
                LET r == api_dog_events(d, q, err).resp
                IN Envelope(r, TRUE, Some(Len(r.events)))
\* every answer of the employee API at this state is an envelope
EmployeeApiEnvelopes ==
  \A requester \in Requesters, err \in StoreErrors :
    /\ LET r == api_employees(requester, err).resp
       IN Envelope(r, TRUE, Some(Cardinality(r.employees)))
    /\ \A id \in EmployeeIds :
          LET r == api_employee(requester, id, err).resp
          IN Envelope(r, r.employee # None, None)

\* C17 as stated: every response of an /api/ endpoint, in both variants and
\* for every request and store state, is such an envelope.
ApiEnvelope == DogApiEnvelopes /\ EmployeeApiEnvelopes

\* the answer to a request without a session: the redirect to the login page
SentToLogin(r) ==
  /\ r.status = 302 /\ r.json = None
  /\ r.location # None /\ startswith(r.location[1], url_login)

\* C17, amended: every response of an /api/ endpoint to a request the route
\* admits (dog variant: a signed-in user; employee variant: anyone) is such an
\* envelope; the dog variant answers a request without a session with the
\* redirect to the login page and no JSON body.
ApiEnvelopeWhenAdmitted ==
  /\ is_authenticated => DogApiEnvelopes
  /\ ~is_authenticated =>
        \A err \in StoreErrors :
          /\ SentToLogin(api_dogs(err).resp)
          /\ \A d \in DogIds :
                /\ SentToLogin(api_dog(d, err).resp)
                /\ \A q \in query_dog_events(d) :
                      SentToLogin(api_dog_events(d, q, err).resp)
  /\ EmployeeApiEnvelopes

\* an API has answered 'not found' in an envelope
ApiAnsweredNotFound ==
  \/ resp.json # None /\ resp.status = 404 /\ ~resp.json[1].success
  \/ empResp.json # None /\ empResp.status = 404 /\ ~empResp.json[1].success

(* ---------------- C18: a read that fails ------------------------------- *)
\* status 500 and a body with success=false and an error string
ServerErrorJson(r) ==
  /\ r.status = 500 /\ r.json # None
  /\ ~r.json[1].success /\ r.json[1].error # None
\* the dog API answers every failed read with the 500 envelope
DogApiReadError(err) ==
  /\ ServerErrorJson(api_dogs(err).resp)
  /\ \A d \in DogIds :
        /\ ServerErrorJson(api_dog(d, err).resp)
        /\ \A q \in query_dog_events(d) : ServerErrorJson(api_dog_events(d, q, err).resp)

\* C18: when the store raises an error while an /api/ endpoint reads from it,
\* the endpoint answers 500 with success=false and an error string, never
\* success=true and never a 404, in the dog variant and in the employee
\* variant.
ReadErrorAnswered500 ==
  \A err \in StoreErrors \ {None} :
    /\ is_authenticated => DogApiReadError(err)
    /\ \A requester \in Requesters :
          /\ ServerErrorJson(api_employees(requester, err).resp)
          /\ \A id \in EmployeeIds : ServerErrorJson(api_employee(requester, id, err).resp)

(* ---------------- C19: a commit that fails ----------------------------- *)
\* the route rolled back explicitly, flashed, committed once (no retry)
RolledBackAndFlashed(out) ==
  /\ out.rollback /\ out.attempts = 1
  /\ Len(out.resp.flashes) = 1 /\ out.resp.flashes[1].category = "error"
\* the requests of the dog variant that reach db.session.commit(), by route
DogCommitters(u) ==
  [register |-> { register(s.method, s.form, u) : s \in Posts(UserForms) },
   add |-> { add(s.method, s.form, u) : s \in Posts(DogForms) },
   edit |-> UNION { { edit(d, s.method, s.form) : s \in Posts(DogForms) } : d \in DogIds },
   delete |-> { delete(d) : d \in DogIds },
   add_event |-> { add_event(s.method, s.form, u) : s \in Posts(EditEventForms) },
   edit_event |-> UNION { { edit_event(ev, s.method, s.form) : s \in Posts(EditEventForms) }
                          : ev \in EventIds },
   delete_event |-> { delete_event(ev) : ev \in EventIds }]

\* C19: when the commit fails inside a mutating route (add, edit, delete of a
\* dog, event or employee, or register), the route performs an explicit
\* rollback, emits a flash message, does not retry, and the persisted store is
\* the store before the request. (Flask-SQLAlchemy removes the session when the
\* request ends, so the next request starts from a new transaction.)
CommitFailureRolledBack ==
  /\ \A e \in CommitErrors, u \in uuid4 : \A route \in DOMAIN DogCommitters(u) :
        \A out \in DogCommitters(u)[route] :
          out.st.commits = commits + 1 =>
            /\ RolledBackAndFlashed(commit_raises(route, e))
            /\ SameStore(commit_raises(route, e).st)
  /\ \A route \in {"add", "edit", "delete"}, id \in EmployeeIds, f \in EmployeeForms :
        EmpReachesCommit(route, id, f) =>
          /\ RolledBackAndFlashed(emp_commit_raises(route, id))
          /\ emp_commit_raises(route, id).employees = employees

(* ---------------- C20: two edits at once ------------------------------- *)
\* C20: when two edit requests for the same record run concurrently (each
\* reads the record, assigns its submitted fields, commits), neither is
\* blocked or rejected, and the stored record is the submitted values of the
\* request that committed last, never a mixture of the two submissions.
LastWriteWins ==
  /\ \A r \in EditRequests :
        edits[r].pc = "loaded" /\ commits < MaxCommits => ENABLED EditCommit(r)
  /\ \A first, last \in EditRequests :
        /\ edits[first].pc = "done" /\ edits[last].pc = "done"
        /\ edits[first].dog_id = edits[last].dog_id
        /\ edits[first].order < edits[last].order
        => dogs[edits[last].dog_id[1]] = DogRow(edits[last].form[1])

(* ---------------- C21: end after start --------------------------------- *)
\* C21: every stored event that has an end timestamp has
\* end_timestamp >= timestamp, so every reported duration is >= 0.
EndNotBeforeStart ==
  \A e \in DOMAIN events :
    events[e].end_timestamp # None =>
      dt_ge(events[e].end_timestamp[1], events[e].timestamp)

(* ---------------- C22: what a form accepts ----------------------------- *)
\* the text a field was submitted with ('' when the field is missing)
FieldText(raw) == IF raw = <<>> THEN "" ELSE raw[1]
\* a required string field: present, min..max characters, all of them allowed
StringRule(raw, min, max, allowed) ==
  /\ FieldText(raw) # ""
  /\ Len(FieldText(raw)) >= min /\ Len(FieldText(raw)) <= max
  /\ AllChars(FieldText(raw), allowed)
\* the rules of DogForm
DogRules(form) ==
  /\ StringRule(form.name, 2, 100, NameChars)
  /\ StringRule(form.approx_age, 2, 50, AgeChars)
  /\ StringRule(form.breed_type, 2, 100, BreedChars)
  /\ FieldText(form.size) \in dog_sizes
\* the rules of EventForm: three required fields, two bounded strings, and
\* the select fields within their choices
EventRules(form) ==
  /\ FieldText(form.dog_id) \in DOMAIN dogs
  /\ FieldText(form.event_type) \in event_types
  /\ FieldText(form.timestamp) # ""
  /\ Len(FieldText(form.location)) <= 200
  /\ Len(FieldText(form.notes)) <= 1000
  /\ FieldText(form.bristol_stool_scale) \in BristolChoices
\* the employee form: its three fields are required; the variant declares no
\* pattern of its own, so the characters are held against every character
\* any pattern of DogForm allows, and the length against the column's width
EmployeeRules(form) ==
  \A name \in {"fullname", "location", "job_title"} :
    /\ strip(form_get(form, name)) # ""
    /\ Len(form_get(form, name)) <= 100
    /\ AllChars(form_get(form, name), NameChars \cup AgeChars \cup BreedChars)
\* the submission was turned down: no exception, no success, the same store
Rejected(out) ==
  /\ SameStore(out.st) /\ out.resp.status \in {200, 302}
  /\ \A i \in 1..Len(out.resp.flashes) : out.resp.flashes[i].category # "success"
EmpRejected(out) ==
  /\ out.employees = employees /\ out.resp.status \in {200, 302}
  /\ \A i \in 1..Len(out.resp.flashes) : out.resp.flashes[i].category # "success"

\* the dog and event forms turn down what breaks a rule
DogFormsValidated ==
  /\ \A s \in Posts(DogForms) :
        ~DogRules(s.form) =>
          /\ \A u \in uuid4 : Rejected(add(s.method, s.form, u))
          /\ \A d \in DOMAIN dogs : Rejected(edit(d, s.method, s.form))
EventFormsValidated ==
  /\ \A s \in Posts(EventForms) :
        ~EventRules(s.form) =>
          /\ \A u \in uuid4 : Rejected(add_event(s.method, s.form, u))
          /\ \A e \in DOMAIN events : Rejected(edit_event(e, s.method, s.form))
EmployeeFormsValidated ==
  \A r \in Requesters : \A s \in Posts(EmployeeForms) :
    ~EmployeeRules(s.form) =>
      /\ \A u \in uuid4 : EmpRejected(emp_add(r, s.method, s.form, u))
      /\ \A id \in DOMAIN employees : EmpRejected(emp_edit(r, id, s.method, s.form))

\* C22: every entity form submission (add or edit, in both variants) is
\* accepted only if each required field is present, each string field is
\* within its length bounds and consists only of its allow-listed characters,
\* and each select field holds a value of its enumerated set; a submission
\* that breaks a rule is rejected without an exception and leaves the store
\* unchanged.
FormsValidated ==
  /\ is_authenticated => DogFormsValidated /\ EventFormsValidated
  /\ EmployeeFormsValidated

(* ---------------- C23: usernames and emails are unique ----------------- *)
\* C23: under any interleaving of concurrent /register requests no two users
\* share a username and no two users share an email, and a registration whose
\* username or email already exists is rejected and adds no user.
UsersUnique ==
  /\ \A a, b \in DOMAIN users :
        a # b => /\ users[a].username # users[b].username
                 /\ users[a].email # users[b].email
  /\ (is_authenticated /\ current_user[1].role = "admin") =>
        \A s \in Posts(UserForms \cup RegisterForms), u \in uuid4 :
          (/\ UserFormValid(s.method, s.form)
           /\ \/ user_by_username(s.form.username[1]) # {}
              \/ user_by_email(s.form.email[1]) # {})
          => /\ SameStore(register(s.method, s.form, u).st)
             /\ register(s.method, s.form, u).resp.template = Some("register.html")
             /\ Len(register(s.method, s.form, u).resp.flashes) = 1
  /\ \A r \in EditRequests :
        registrations[r].pc = "failed" => registrations[r].id[1] \notin DOMAIN users

\* two registrations passed the checks together and the later commit was refused
SecondRegistrationRefused ==
  \E a, b \in EditRequests :
    /\ registrations[a].pc = "done" /\ registrations[b].pc = "failed"
    /\ registrations[a].id # registrations[b].id
    /\ Flashed(resp, "Error creating user: IntegrityError")

(* ------------- C24: outcomes do not depend on the role ----------------- *)
\* what a run shows of an outcome: the response and the store it leaves
Shown(out) ==
  [resp |-> out.resp, dogs |-> out.st.dogs, events |-> out.st.events,
   users |-> out.st.users]
\* the outcome of every list, view, add, edit, add-event, edit-event and
\* read-API request on the present store, for the present requester
RoleFreeOutcomes ==
  [home |-> Shown(home),
   view |-> [d \in DogIds |-> { Shown(view(d, q)) : q \in query_dog_events(d) }],
   add |-> [s \in Submissions(DogForms) |->
              { Shown(add(s.method, s.form, u)) : u \in uuid4 }],
   edit |-> [d \in DogIds |->
               [s \in Submissions(DogForms) |-> Shown(edit(d, s.method, s.form))]],
   add_event |-> [s \in Submissions(EventForms) |->
                    { Shown(add_event(s.method, s.form, u)) : u \in uuid4 }],
   edit_event |-> [e \in EventIds |->
                     [s \in Submissions(EditEventForms) |->
                        Shown(edit_event(e, s.method, s.form))]],
   api_dogs |-> Shown(api_dogs(None)),
   api_dog |-> [d \in DogIds |-> Shown(api_dog(d, None))],
   api_dog_events |-> [d \in DogIds |->
                         { Shown(api_dog_events(d, q, None)) :
                             q \in query_dog_events(d) }]]

\* C24: for list, view, add dog, edit dog, add event, edit event and the read
\* API, two authenticated requesters that differ in their role get, for the
\* same request on the same store, the same response and the same resulting
\* store.
OutcomesIgnoreRole ==
  [][ (/\ is_authenticated /\ is_authenticated'
       /\ current_user[1].role # current_user'[1].role
       /\ dogs' = dogs /\ events' = events /\ users' = users)
      => RoleFreeOutcomes' = RoleFreeOutcomes ]_vars

\* a manager has added a dog, and sessions of all three roles can follow
ManagerAddedDog ==
  /\ is_authenticated /\ current_user[1].role = "manager"
  /\ Flashed(resp, "Dog added successfully!")
  /\ { users[id].role : id \in DOMAIN users } = Roles

(* ------------- C25: how the user table changes ------------------------ *)
\* C25: the user table changes only by seeding at initialisation or by a
\* successful /register of an admin; either only adds users whose role is
\* admin, manager or employee; no step removes a user or changes the username,
\* email, role or active flag of an existing user.
UsersOnlyAdded ==
  /\ [](\A id \in DOMAIN users : users[id].role \in Roles)
  /\ [][ users' # users =>
          /\ \/ DOMAIN users = {} /\ users' = sample_users
             \/ /\ is_authenticated /\ current_user[1].role = "admin"
                /\ resp'.status = 302 /\ Len(resp'.flashes) = 1
                /\ resp'.flashes[1].category = "success"
                /\ Cardinality(DOMAIN users' \ DOMAIN users) = 1
          /\ \A id \in DOMAIN users :
                /\ id \in DOMAIN users'
                /\ users'[id].username = users[id].username
                /\ users'[id].email = users[id].email
                /\ users'[id].role = users[id].role
                /\ users'[id].is_active = users[id].is_active
          /\ \A id \in DOMAIN users' \ DOMAIN users : users'[id].role \in Roles ]_vars

\* an admin has registered a third user, and the application has started again
\* on the table of three
RegisteredThenRestarted ==
  /\ Cardinality(DOMAIN users) = 3
  /\ \E id \in DOMAIN users : users[id].username = "carol" /\ users[id].role = "manager"
  /\ Flashed(resp, "User carol created successfully!")
  /\ \A fk \in ForeignKeys : init_app(fk).users = users

(* ------------- C26: every event belongs to a stored dog ---------------- *)
\* C26: after any sequence of add-dog, edit-dog, delete-dog, add-event,
\* edit-event and delete-event requests and of re-initialisations, the dog_id
\* of every stored event is the id of a dog of the store.
EventsReferToDogs ==
  \A e \in DOMAIN events : events[e].dog_id \in DOMAIN dogs

(* ------------- C27: how a session becomes authenticated ---------------- *)
\* the users a login form names with the right password, active ones only
Admitted(form) ==
  { id \in DOMAIN users :
      /\ form.username # None /\ users[id].username = form.username[1]
      /\ form.password # None /\ users[id].password_hash = hashpw(form.password[1])
      /\ users[id].is_active }
\* what /login does to the session, for every login request of the model
LoginJudged ==
  \A s \in Submissions(LoginForms), n \in NextValues :
    LET out == login(s.method, s.form, n)
    IN /\ is_authenticated => out.st.session = session
       /\ ~is_authenticated =>
            /\ out.st.session # None =>
                 s.method = "POST" /\ out.st.session[1] \in Admitted(s.form)
            /\ Admitted(s.form) = {} =>
                 out.st.session = None /\ out.resp.template = Some("login.html")
       /\ SameStore(out.st)

RedirectedToLogin(r) ==
  /\ r.status = 302 /\ r.location # None /\ startswith(r.location[1], "/login")
  /\ r.template = None /\ r.dog = None /\ r.json = None

\* C28: after GET /logout of an authenticated session the session is
\* unauthenticated, and until a POST /login of the session succeeds every
\* request of it to a protected route is redirected to login and changes
\* nothing of the store.
LoggedOutUntilLogin ==
  /\ [][ (is_authenticated /\
          Flashed(resp', "You have been logged out successfully."))
         => ~is_authenticated' ]_vars
  /\ [][ (~is_authenticated /\ ~is_authenticated') =>
           /\ dogs' = dogs /\ events' = events /\ users' = users
           /\ commits' = commits
           /\ \/ RedirectedToLogin(resp')
              \/ resp'.template = Some("login.html") ]_vars
  /\ [](~is_authenticated => \A out \in ProtectedOutcomes :
                               RedirectedToLogin(out.resp) /\ out.st = State)

\* a session that has changed the store and logged out asks for a protected
\* page and is sent to the login page
SentToLoginAfterLogout ==
  /\ commits > 0
  /\ ~is_authenticated
  /\ RedirectedToLogin(resp)
  /\ Flashed(resp, "Please log in to access this page.")

(* ------------- C29: initialisation seeds empty tables only -------------- *)
\* table after is table before, or table before was empty and after holds the
\* sample rows or nothing
SeededOrKept(before, after, sample) ==
  IF DOMAIN before # {} THEN after = before ELSE after \in {before, sample}

\* C29: initialisation seeds sample rows only into a table that is empty and
\* leaves every table that is not empty unchanged; initialising a second time
\* on the store the first initialisation left changes nothing.
InitSeedsEmptyTablesOnly ==
  /\ \A fk \in ForeignKeys :
        LET first == init_app(fk)
        IN /\ SeededOrKept(dogs, first.dogs, sample_dogs)
           /\ SeededOrKept(events, first.events, sample_events)
           /\ SeededOrKept(users, first.users, sample_users)
           /\ first.session = session /\ first.commits = commits
           /\ init_app_of(first, fk) = first
  /\ LET first == create_app_of(employees)
     IN /\ SeededOrKept(employees, first, sample_employees)
        /\ create_app_of(first) = first

\* the dog application has started again on an emptied event table beside a
\* dog table that was not empty: the sample events are back, the deleted dog is
\* not
RestartedOnEmptiedTables ==
  /\ DOMAIN dogs # {} /\ dogs # sample_dogs
  /\ events = sample_events

(* ------------- C30: a create never overwrites --------------------------- *)
\* a registration that passes the username and email checks beside carol's
OtherUser ==
  [GoodUser EXCEPT !.username = << "dave" >>, !.email = << "dave@company.com" >>]
\* the outcome of a refused create: one error flash, the form again, the store
\* as it was
CreateRefused(out, template) ==
  /\ SameStore(out.st)
  /\ out.resp.status = 200 /\ out.resp.template = Some(template)
  /\ Len(out.resp.flashes) = 1 /\ out.resp.flashes[1].category = "error"

====
